---- MODULE Spec2Model ----
(***************************************************************************)
(* Verification model of TrackieLLM's concurrency core:                    *)
(*   - via::shared::SafeQueue  (modules/shared/include/via/shared/SafeQueue.h) *)
(*   - via::core::App          (modules/core/src/App.cpp)                  *)
(* Each part has its own specification (SpecQueue, SpecApp) over one       *)
(* common set of variables; the part a specification does not exercise     *)
(* stays in its initial state.                                             *)
(***************************************************************************)
EXTENDS Integers, Sequences, FiniteSets, TLC

\* ------------------------------------------------------------------------
\* Bounds of the model
\* ------------------------------------------------------------------------
NumConsumers == 2
MaxPush == 2
NumModules == 2
MaxSignals == 2
MaxTimeout == 2
MaxGrabs == 2
MaxCoord == 1
MaxBoxes == 3
MaxSide == 2
MaxTarget == 3
MaxSamples == 2
MaxModelSide == 2

MaxAudioCalls == 2

VARIABLES
  \* --- SafeQueue<T> fields ---
  m_queue,        \* std::queue<T> m_queue
  m_is_valid,     \* bool m_is_valid = true
  cv_waiters,     \* threads blocked inside m_cond_var.wait
  \* --- per-thread position and locals of the queue's callers ---
  qpc,            \* position of the invalidating thread and of each consumer
  notifying,      \* push calls between their unlock and their notify_one,
                  \*   each named by the item it pushes
  last,           \* the return made by the latest step, if it was a pop's
                  \*   return: which function, result, out-parameter
  \* --- history of the queue (observations, not program state) ---
  nextItem,       \* next fresh item to be pushed
  pushed,         \* items in the order m_queue.push ran
  popped,         \* items in the order m_queue.pop ran
  reinvalidated,  \* notify_all has run again on the invalidated queue
  emptyAtInv,     \* queue was empty when m_is_valid was first cleared
  allBlockedAtInv, \* every consumer was blocked when m_is_valid was cleared
  pushAfterInv,   \* an item was enqueued after m_is_valid was cleared
  sawFalse,       \* some wait_and_pop has returned false
  \* --- App ---
  app_pc,         \* position of the main thread
  s_isRunning,    \* static std::atomic<bool> s_isRunning
  m_modules,      \* std::vector<std::unique_ptr<IModule>> m_modules
  m_config,       \* ViaConfig* m_config is non-null
  handlerSet,     \* handleSignal is installed for SIGINT and SIGTERM
  idx,            \* position of a range-for over m_modules
  sd_it,          \* position of shutdown's reverse iterator
  sd_ret,         \* where the running shutdown() returns to
  exitCode,       \* what run() returned: "none", "success", "failure"
  \* --- history of the App (observations, not program state) ---
  trace,          \* calls made to the modules, the HAL and the config loader
  sigCount,       \* signals delivered so far
  handlerOps,     \* kinds of operation handleSignal has performed
  \* --- hal_camera_t (V4L2 backend) and its driver ---
  n_buffers,      \* unsigned int n_buffers: slots granted by VIDIOC_REQBUFS
  cam_queued,     \* driver: slots queued for capture, in VIDIOC_QBUF order
  cam_filled,     \* driver: slots filled and not yet dequeued, in fill order
  streaming,      \* driver: VIDIOC_STREAMON has succeeded
  \* --- PerceptionEngine ---
  p_isRunning,    \* std::atomic<bool> m_isRunning
  p_pc,           \* position of the perception worker thread
  frame,          \* hal_frame_t frame: its data pointer, 0 when none is held
  stage,          \* position in m_pipeline
  scene,          \* the SceneData of the current frame
  \* --- history of the frame loop (observations, not program state) ---
  iter,           \* calls made by the current iteration of the frame loop
  cycles,         \* grab/release cycles completed, up to MaxCycles
  prevFailed,     \* a stage failed on the previous grabbed frame
  \* --- LlmInterpreter (its m_task_queue is the SafeQueue above) ---
  llm_model,      \* llama_model* m_model is non-null
  llm_context,    \* llama_context* m_context is non-null
  llm_isRunning,  \* std::atomic<bool> m_isRunning
  llm_thread,     \* std::thread m_thread: the worker it holds, 0 when not
                  \*   joinable
  llm_cpc,        \* position of the thread calling initialize/start/stop
  llm_wpc,        \* position of each worker thread in reasoningLoop
  llm_task,       \* LlmTask task of each worker: the task popped, 0 if none
  llm_promise,    \* per task, what its promise was fulfilled with, in order
  \* --- history of the LlmInterpreter (observations, not program state) ---
  llm_lateSubmit, \* a submitPrompt had not returned when stop() was called
  \* --- hal_camera_grab_frame / hal_camera_release_frame per backend ---
  hal_backend,    \* the backend camera.c was compiled for
  g_pc,           \* position of the thread calling the camera HAL
  g_timeout,      \* timeout_ms of the call in progress, in ticks
  g_waited,       \* ticks the call in progress has been blocked
  g_status,       \* hal_status_t returned by the latest grab_frame
  g_ready,        \* the device holds a captured frame not yet read
  g_heap,         \* blocks obtained from malloc and not yet freed
  g_data,         \* frame->data of the caller's hal_frame_t
  g_released,     \* release_frame has returned for that frame
  g_grabs,        \* calls of grab_frame made so far
  \* --- nms_greedy_neon: memory, registers, position ---
  nms_pc,         \* position in nms_greedy_neon: "idle", "outer", "inner",
                  \*   "done"
  nms_boxes,      \* BoundingBox* boxes: the array in memory
  nms_thr,        \* s0: iou_threshold, as << numerator, denominator >>
  nms_q15,        \* lanes 0 and 1 of q15, which the function never writes
  nms_i,          \* r2: outer loop counter, counted from 1
  nms_j,          \* r3: inner loop counter, counted from 1
  nms_q1,         \* q1 = s4..s7
  nms_pass,       \* 1 in the first call, 2 in the call on its survivors
  \* --- preprocess_image_cpp: arguments, loop counters, position ---
  pre_pc,         \* position in preprocess_image_cpp: "idle", "loop",
                  \*   "done", "rejected"
  input_frame,    \* const hal_frame_t& input_frame
  output_tensor,  \* std::vector<float>& output_tensor, counted from 0
  target_width,   \* int target_width
  target_height,  \* int target_height
  x_out,          \* int x_out
  y_out,          \* int y_out
  writes,         \* how many times each element of output_tensor has been
                  \*   stored to by this call (observation)
  \* --- audio HAL (hal_audio_capture_chunk, hal_audio_playback_chunk) ---
  au_backend,     \* platform audio.c is built for: "unbuilt", "linux",
                  \*   "win32"
  au_pc,          \* position of the caller: "idle", "polling", "returned"
  au_fn,          \* the function called last: "none", "capture", "playback"
  au_req,         \* num_samples_to_read, or chunk->num_samples on playback
  au_chunk,       \* the caller's hal_audio_chunk_t
  au_status,      \* hal_status_t returned by the last call
  au_heap,        \* blocks allocated by malloc and not freed
  au_hdr,         \* WAVEHDR of the call: "none", "queued", "rejected",
                  \*   "done" (WHDR_DONE set)
  g_audio_filter_func,
                  \* whether a filter hook is registered
  au_moved,       \* samples the device transferred in the last call
                  \*   (observation)
  au_recovers,    \* snd_pcm_recover calls of the last call (observation)
  au_failed,      \* a device call of the last call failed (observation)
  au_calls,       \* calls made so far
  \* --- hal_camera_open: arguments, position, resources held ---
  o_backend,      \* platform camera.c is built for, as seen by hal_camera_open
  o_pc,           \* position in hal_camera_open: "idle", "open", "s_fmt",
                  \*   "reqbufs", "map", "returned", "crashed", "closed"
  o_hasOut,       \* whether out_camera is not NULL
  o_out,          \* *out_camera, the caller's handle variable
  o_status,       \* hal_status_t returned
  o_held,         \* resources acquired by the call and not released
  o_n,            \* dev->n_buffers
  o_i,            \* unsigned int i of the mapping loop
  \* --- a free caller of the V4L2 camera HAL (observations) ---
  r_pc,           \* the camera as the caller sees it: "closed", "opened",
                  \*   "streaming", "start_failed"
  r_held,         \* slots handed out by grab_frame and not queued again since
  r_status,       \* hal_status_t returned by the last grab_frame
  r_data,         \* frame->data passed to the last release_frame
  \* --- OnnxRuntimeProcessor (OnnxRuntimeProcessor.cpp) ---
  onnx_pc,        \* "unbuilt", "idle", "preprocess", "run", "returned", "fault"
  input_node_dims,\* shape of the model's single input, [1, 3, H, W]
  onnx_frame,     \* scene_data.frame of the call
  out_tensor_data,\* the float vector preprocess fills
  loop_c,         \* channel counter of preprocess
  loop_h,         \* row counter of preprocess
  loop_w,         \* column counter of preprocess
  src_idx,        \* offset of the last source byte read, -1 before the first
  onnx_ret        \* what process returned: "none", "true", "false"

qvars == << m_queue, m_is_valid, cv_waiters, qpc, notifying, last,
            nextItem, pushed, popped, reinvalidated, emptyAtInv,
            allBlockedAtInv, pushAfterInv, sawFalse >>

avars == << app_pc, s_isRunning, m_modules, m_config, handlerSet, idx, sd_it,
            sd_ret, exitCode, trace, sigCount, handlerOps >>

pvars == << n_buffers, cam_queued, cam_filled, streaming, p_isRunning, p_pc,
            frame, stage, scene, iter, cycles, prevFailed >>

lvars == << llm_model, llm_context, llm_isRunning, llm_thread, llm_cpc,
            llm_wpc, llm_task, llm_promise, llm_lateSubmit >>

hvars == << hal_backend, g_pc, g_timeout, g_waited, g_status, g_ready,
            g_heap, g_data, g_released, g_grabs >>

nvars == << nms_pc, nms_boxes, nms_thr, nms_q15, nms_i, nms_j, nms_q1,
            nms_pass >>

ivars == << pre_pc, input_frame, output_tensor, target_width, target_height,
            x_out, y_out, writes >>

uvars == << au_backend, au_pc, au_fn, au_req, au_chunk, au_status, au_heap,
            au_hdr, g_audio_filter_func, au_moved, au_recovers, au_failed,
            au_calls >>

ovars == << o_backend, o_pc, o_hasOut, o_out, o_status, o_held, o_n, o_i >>

rvars == << r_pc, r_held, r_status, r_data >>

xvars == << onnx_pc, input_node_dims, onnx_frame, out_tensor_data, loop_c,
            loop_h, loop_w, src_idx, onnx_ret >>

\* the variables of the parts a specification leaves alone
notQueue == << avars, pvars, lvars, hvars, nvars, ivars, uvars, ovars, rvars, xvars >>
notApp == << qvars, pvars, lvars, hvars, nvars, ivars, uvars, ovars, rvars, xvars >>
notPerception == << qvars, avars, lvars, hvars, nvars, ivars, uvars, ovars, rvars, xvars >>
notLlm == << avars, pvars, hvars, nvars, ivars, uvars, ovars, rvars, xvars >>
notHal == << qvars, avars, pvars, lvars, nvars, ivars, uvars, ovars, rvars, xvars >>
notNms == << qvars, avars, pvars, lvars, hvars, ivars, uvars, ovars, rvars, xvars >>
notPre == << qvars, avars, pvars, lvars, hvars, nvars, uvars, ovars, rvars, xvars >>
notAudio == << qvars, avars, pvars, lvars, hvars, nvars, ivars, ovars, rvars, xvars >>
notOpen == << qvars, avars, pvars, lvars, hvars, nvars, ivars, uvars, rvars, xvars >>
notRing == << qvars, avars, lvars, hvars, nvars, ivars, uvars, ovars, xvars >>
notOnnx == << qvars, avars, pvars, lvars, hvars, nvars, ivars, uvars, ovars, rvars >>

vars == << qvars, avars, pvars, lvars, hvars, nvars, ivars, uvars, ovars, rvars, xvars >>

\* ------------------------------------------------------------------------
\* Generic helpers
\* ------------------------------------------------------------------------
Range(s) == { s[i] : i \in 1..Len(s) }

NoDup(s) == \A i, j \in 1..Len(s) : i # j => s[i] # s[j]

Reverse(s) == [ i \in 1..Len(s) |-> s[Len(s) + 1 - i] ]

IndexOf(s, x) == CHOOSE i \in 1..Len(s) : s[i] = x

\* ------------------------------------------------------------------------
\* SafeQueue: threads
\* ------------------------------------------------------------------------
\* Consumers call wait_and_pop and try_pop; one thread calls notify_all.
\* push may be called by any number of threads: a call of push is named by
\* the item it pushes, and up to MaxPush calls may be in progress at once.
Invalidator == 0
Consumers == 1..NumConsumers
Threads == {Invalidator} \cup Consumers
Items == 1..MaxPush

\* ------------------------------------------------------------------------
\* SafeQueue: the pure pieces of the member functions
\* ------------------------------------------------------------------------

\* m_queue.push(std::move(item))                              (SafeQueue.h:70)
Enqueue_lifo(q, x) == <<x>> \o q
Enqueue(q, x) == Append(q, x)

\* item = std::move(m_queue.front())                      (SafeQueue.h:96,115)
Front(q) == Head(q)

\* m_queue.pop()                                          (SafeQueue.h:97,116)
PopFront_keep(q) == q
PopFront(q) == Tail(q)

\* the wait predicate [this]{ return !m_queue.empty() || !m_is_valid; }  (:88)
WaitPred == m_queue # << >> \/ ~m_is_valid

\* the test `if (m_queue.empty()) return false;` of wait_and_pop  (:92)
WapGivesUp_onInvalid == m_queue = << >> \/ ~m_is_valid
WapGivesUp == m_queue = << >>

\* m_cond_var.notify_one(): the sets of waiters it may wake        (:72)
NotifyOneTargets_none(w) == { {} }
NotifyOneTargets(w) == IF w = {} THEN { {} } ELSE { {t} : t \in w }

\* m_cond_var.notify_all(): the waiters it wakes                   (:149)
NotifyAllTargets_one(w) == IF w = {} THEN {} ELSE { CHOOSE t \in w : TRUE }
NotifyAllTargets(w) == w

\* the value notify_all stores into m_is_valid                     (:147)
InvalidatedValue_revalidate == ~m_is_valid
InvalidatedValue == FALSE

\* what a pop hands back to its caller: the function called ("wap" or
\* "try"), its bool result, the out-parameter (0 when untouched) and
\* whether the call had blocked before it returned
NoReturn == [fn |-> "none", res |-> FALSE, val |-> 0, blocked |-> FALSE]
Return(f, r, v, b) == [fn |-> f, res |-> r, val |-> v, blocked |-> b]

\* ------------------------------------------------------------------------
\* SafeQueue: initial state (after the defaulted constructor)
\* ------------------------------------------------------------------------
InitQueue ==
  /\ m_queue = << >>
  /\ m_is_valid = TRUE
  /\ cv_waiters = {}
  /\ qpc = [t \in Threads |-> "idle"]
  /\ notifying = {}
  /\ last = NoReturn
  /\ nextItem = 1
  /\ pushed = << >>
  /\ popped = << >>
  /\ reinvalidated = FALSE
  /\ emptyAtInv = FALSE
  /\ allBlockedAtInv = FALSE
  /\ pushAfterInv = FALSE
  /\ sawFalse = FALSE

\* a step that is no pop's return and leaves the history alone
QueueHistoryUnchanged ==
  /\ last' = NoReturn
  /\ UNCHANGED << nextItem, pushed, popped, reinvalidated, emptyAtInv,
                  allBlockedAtInv, pushAfterInv, sawFalse >>

\* pushes that have returned to their caller
CompletedPushes == Range(pushed) \ notifying

\* Every access to m_queue and m_is_valid is made while holding m_mutex
\* (std::lock_guard / std::unique_lock), and a holder never blocks except in
\* m_cond_var.wait, which gives the mutex up atomically.  A critical section
\* is therefore one action: it is entered with the mutex free and leaves it
\* free, and m_mutex has no state of its own between actions.  A call takes
\* effect when it enters its critical section; what it does before (argument
\* passing, waiting for the mutex) is invisible to the other threads.

\* ------------------------------------------------------------------------
\* SafeQueue::push                                       (SafeQueue.h:67-73)
\* ------------------------------------------------------------------------
\* lines 68-71: lock, enqueue, unlock
PushBody(i) ==
  /\ i = nextItem
  /\ nextItem <= MaxPush
  /\ nextItem' = nextItem + 1
  /\ m_queue' = Enqueue(m_queue, i)
  /\ pushed' = Append(pushed, i)
  /\ pushAfterInv' = (pushAfterInv \/ ~m_is_valid)
  /\ notifying' = notifying \cup {i}
  /\ last' = NoReturn
  /\ UNCHANGED << m_is_valid, cv_waiters, qpc, popped, reinvalidated,
                  emptyAtInv, allBlockedAtInv, sawFalse >>

\* line 72: m_cond_var.notify_one(), after the mutex is released
PushNotify(i) ==
  /\ i \in notifying
  /\ \E W \in NotifyOneTargets(cv_waiters) :
       /\ cv_waiters' = cv_waiters \ W
       /\ qpc' = [t \in Threads |-> IF t \in W THEN "wap_woken" ELSE qpc[t]]
  /\ notifying' = notifying \ {i}
  /\ UNCHANGED << m_queue, m_is_valid >>
  /\ QueueHistoryUnchanged

\* ------------------------------------------------------------------------
\* SafeQueue::wait_and_pop                               (SafeQueue.h:86-99)
\* ------------------------------------------------------------------------
\* the thread holds the mutex and is about to test the wait predicate:
\* it has just called wait_and_pop (line 87) or has been woken (line 88)
WapAtPredicate(c) == qpc[c] \in {"idle", "wap_woken"}

\* lines 87-88 with the predicate false: the thread blocks, releasing the
\* mutex
WapBlock(c) ==
  /\ WapAtPredicate(c)
  /\ ~WaitPred
  /\ qpc' = [qpc EXCEPT ![c] = "wap_wait"]
  /\ cv_waiters' = cv_waiters \cup {c}
  /\ UNCHANGED << m_queue, m_is_valid, notifying >>
  /\ QueueHistoryUnchanged

\* lines 87-98 with the predicate true: the rest of the function runs under
\* the same hold of the mutex
WapPop(c) ==
  /\ WapAtPredicate(c)
  /\ WaitPred
  /\ IF WapGivesUp
       THEN /\ last' = Return("wap", FALSE, 0, qpc[c] = "wap_woken")
            /\ sawFalse' = TRUE
            /\ UNCHANGED << m_queue, popped >>
       ELSE /\ last' = Return("wap", TRUE, Front(m_queue),
                              qpc[c] = "wap_woken")
            /\ m_queue' = PopFront(m_queue)
            /\ popped' = Append(popped, Front(m_queue))
            /\ UNCHANGED sawFalse
  /\ qpc' = [qpc EXCEPT ![c] = "idle"]
  /\ UNCHANGED << m_is_valid, cv_waiters, notifying, nextItem, pushed,
                  reinvalidated, emptyAtInv, allBlockedAtInv, pushAfterInv >>

\* std::condition_variable::wait may return without a notification
SpuriousWake(c) ==
  /\ qpc[c] = "wap_wait"
  /\ c \in cv_waiters
  /\ cv_waiters' = cv_waiters \ {c}
  /\ qpc' = [qpc EXCEPT ![c] = "wap_woken"]
  /\ UNCHANGED << m_queue, m_is_valid, notifying >>
  /\ QueueHistoryUnchanged

\* ------------------------------------------------------------------------
\* SafeQueue::try_pop                                  (SafeQueue.h:110-118)
\* ------------------------------------------------------------------------
TryPop(c) ==
  /\ qpc[c] = "idle"
  /\ IF m_queue = << >>
       THEN /\ last' = Return("try", FALSE, 0, FALSE)
            /\ UNCHANGED << m_queue, popped >>
       ELSE /\ last' = Return("try", TRUE, Front(m_queue), FALSE)
            /\ m_queue' = PopFront(m_queue)
            /\ popped' = Append(popped, Front(m_queue))
  /\ UNCHANGED << qpc, m_is_valid, cv_waiters, notifying, nextItem, pushed,
                  reinvalidated, emptyAtInv, allBlockedAtInv,
                  pushAfterInv, sawFalse >>

\* ------------------------------------------------------------------------
\* SafeQueue::notify_all                               (SafeQueue.h:144-150)
\* ------------------------------------------------------------------------
\* lines 145-148: lock, clear m_is_valid, unlock
NotifyAllBody ==
  /\ qpc[Invalidator] = "idle"
  /\ reinvalidated' = (reinvalidated \/ ~m_is_valid)
  /\ m_is_valid' = InvalidatedValue
  /\ IF m_is_valid
       THEN /\ emptyAtInv' = (m_queue = << >>)
            /\ allBlockedAtInv' = (cv_waiters = Consumers)
       ELSE UNCHANGED << emptyAtInv, allBlockedAtInv >>
  /\ qpc' = [qpc EXCEPT ![Invalidator] = "na_notify"]
  /\ last' = NoReturn
  /\ UNCHANGED << m_queue, cv_waiters, notifying, nextItem, pushed,
                  popped, pushAfterInv, sawFalse >>

\* line 149: m_cond_var.notify_all(), after the mutex is released
NotifyAllWake ==
  /\ qpc[Invalidator] = "na_notify"
  /\ LET W == NotifyAllTargets(cv_waiters) IN
       /\ cv_waiters' = cv_waiters \ W
       /\ qpc' = [t \in Threads |->
                    IF t = Invalidator THEN "idle"
                    ELSE IF t \in W THEN "wap_woken" ELSE qpc[t]]
  /\ UNCHANGED << m_queue, m_is_valid, notifying >>
  /\ QueueHistoryUnchanged

\* ------------------------------------------------------------------------
\* App: the pure pieces                                            (App.cpp)
\* ------------------------------------------------------------------------
\* the modules initializeModules creates, in creation order        (:178-180)
Modules == 1..NumModules
CreatedModules == [ i \in 1..NumModules |-> i ]

\* the order in which shutdown visits the modules: rbegin to rend      (:126)
StopOrder_forward(mods) == mods
StopOrder(mods) == Reverse(mods)

\* m_modules after shutdown's loop: m_modules.clear()                  (:131)
ModulesAfterStop_kept(mods) == mods
ModulesAfterStop(mods) == << >>

\* the value run() stores before its main loop                         (:74)
RunningValue == TRUE

\* the value handleSignal stores                                       (:206)
SignalledValue == FALSE

\* ------------------------------------------------------------------------
\* App: initial state (after the constructor, App.cpp:40-49, and the static
\* initialiser of s_isRunning, :34)
\* ------------------------------------------------------------------------
InitApp ==
  /\ app_pc = "created"
  /\ s_isRunning = FALSE
  /\ m_modules = << >>
  /\ m_config = FALSE
  /\ handlerSet = FALSE
  /\ idx = 0
  /\ sd_it = 0
  /\ sd_ret = "none"
  /\ exitCode = "none"
  /\ trace = << >>
  /\ sigCount = 0
  /\ handlerOps = {}

\* a newly constructed SceneData: no stage has written a result into it
FreshScene == [results |-> {}, valid |-> TRUE]

\* PerceptionEngine after construction: no camera opened, no worker thread
InitPerception ==
  /\ n_buffers = 0
  /\ cam_queued = << >>
  /\ cam_filled = << >>
  /\ streaming = FALSE
  /\ p_isRunning = FALSE
  /\ p_pc = "created"
  /\ frame = 0
  /\ stage = 0
  /\ scene = FreshScene
  /\ iter = << >>
  /\ cycles = 0
  /\ prevFailed = FALSE

\* LlmInterpreter after construction (part_006:187-197)
InitLlm ==
  /\ llm_model = FALSE
  /\ llm_context = FALSE
  /\ llm_isRunning = FALSE
  /\ llm_thread = 0
  /\ llm_cpc = "idle"
  /\ llm_wpc = [w \in Consumers |-> "none"]
  /\ llm_task = [w \in Consumers |-> 0]
  /\ llm_promise = [i \in Items |-> << >>]
  /\ llm_lateSubmit = FALSE

\* the null pointer
NullPtr == << "null", 0 >>

\* the camera HAL before camera.c is compiled: no call made, nothing
\* allocated
InitHal ==
  /\ hal_backend = "unbuilt"
  /\ g_pc = "idle"
  /\ g_timeout = 0
  /\ g_waited = 0
  /\ g_status = "none"
  /\ g_ready = FALSE
  /\ g_heap = {}
  /\ g_data = NullPtr
  /\ g_released = FALSE
  /\ g_grabs = 0

\* before nms_greedy_neon is called
InitNms ==
  /\ nms_pc = "idle"
  /\ nms_boxes = << >>
  /\ nms_thr = << 0, 1 >>
  /\ nms_q15 = << 0, 0 >>
  /\ nms_i = 0
  /\ nms_j = 0
  /\ nms_q1 = << 0, 0, 0, 0 >>
  /\ nms_pass = 0

\* an RGB24 frame of the given size over the interleaved bytes `data`
Frame(width, height, data) ==
  [data |-> data, width |-> width, height |-> height, format |-> "RGB24"]

\* before preprocess_image_cpp is called: no frame, an empty vector
InitPre ==
  /\ pre_pc = "idle"
  /\ input_frame = Frame(0, 0, << >>)
  /\ output_tensor = << >>
  /\ target_width = 0
  /\ target_height = 0
  /\ x_out = 0
  /\ y_out = 0
  /\ writes = << >>

\* a hal_audio_chunk_t; `filtered` tells whether the filter hook has run
\* over the samples
Chunk(data, num_samples, size_bytes, filtered) ==
  [data |-> data, num_samples |-> num_samples, size_bytes |-> size_bytes,
   filtered |-> filtered]

\* the audio HAL before audio.c is compiled: no call made, nothing
\* allocated, no filter registered
InitAudio ==
  /\ au_backend = "unbuilt"
  /\ au_pc = "idle"
  /\ au_fn = "none"
  /\ au_req = 0
  /\ au_chunk = Chunk(NullPtr, 0, 0, FALSE)
  /\ au_status = "none"
  /\ au_heap = {}
  /\ au_hdr = "none"
  /\ g_audio_filter_func = FALSE
  /\ au_moved = 0
  /\ au_recovers = 0
  /\ au_failed = FALSE
  /\ au_calls = 0

\* a resource hal_camera_open acquires: the handle allocation, the device
\* file descriptor, the buffer table, the mapping of buffer i, the source
\* reader
Res(kind, i) == << kind, i >>

\* what the caller's handle variable holds before the call when it was
\* not set to NULL
StalePtr == << "stale", 0 >>

\* the handle the call allocates
DevPtr == << "dev", 0 >>

\* before hal_camera_open is called
InitOpen ==
  /\ o_backend = "unbuilt"
  /\ o_pc = "idle"
  /\ o_hasOut = FALSE
  /\ o_out = NullPtr
  /\ o_status = "none"
  /\ o_held = {}
  /\ o_n = 0
  /\ o_i = 0

\* before the caller opens the camera
InitRing ==
  /\ r_pc = "closed"
  /\ r_held = {}
  /\ r_status = "none"
  /\ r_data = 0

\* before the processor is constructed
InitOnnx ==
  /\ onnx_pc = "unbuilt"
  /\ input_node_dims = << >>
  /\ onnx_frame = Frame(0, 0, << >>)
  /\ out_tensor_data = << >>
  /\ loop_c = 0
  /\ loop_h = 0
  /\ loop_w = 0
  /\ src_idx = 0 - 1
  /\ onnx_ret = "none"

Init ==
  /\ InitQueue /\ InitApp /\ InitPerception /\ InitLlm /\ InitHal /\ InitNms
  /\ InitPre
  /\ InitAudio
  /\ InitOpen
  /\ InitRing
  /\ InitOnnx

\* ------------------------------------------------------------------------
\* App: operations
\* ------------------------------------------------------------------------
AppHistoryUnchanged == UNCHANGED << trace, sigCount, handlerOps >>

Log(e) == trace' = Append(trace, e)

\* a call of shutdown(): its first test, `if (!m_modules.empty())`  (:124)
EnterShutdown(returnTo) ==
  /\ sd_ret' = returnTo
  /\ IF m_modules # << >>
       THEN app_pc' = "sd_stop" /\ sd_it' = 1
       ELSE app_pc' = "sd_hal" /\ sd_it' = 0

\* initialize() returned false: run() calls shutdown()              (:64-66)
FailStartup == EnterShutdown("exit_failure")

\* main() calls run(); run() calls registerSignalHandler   (:61-62, 199-202)
RunCall ==
  /\ app_pc = "created"
  /\ handlerSet' = TRUE
  /\ app_pc' = "load_config"
  /\ UNCHANGED << s_isRunning, m_modules, m_config, idx, sd_it, sd_ret,
                  exitCode >>
  /\ AppHistoryUnchanged

\* loadConfiguration                                        (:94-96, 149-160)
LoadConfiguration ==
  /\ app_pc = "load_config"
  /\ \E ok \in BOOLEAN :
       /\ m_config' = ok
       /\ Log(<< "config_load", 0, ok >>)
       /\ IF ok
            THEN app_pc' = "init_hal" /\ UNCHANGED << sd_it, sd_ret >>
            ELSE FailStartup
  /\ UNCHANGED << s_isRunning, m_modules, handlerSet, idx, exitCode, sigCount,
                  handlerOps >>

\* initializeHAL                                           (:98-100, 162-170)
InitializeHAL ==
  /\ app_pc = "init_hal"
  /\ \E ok \in BOOLEAN :
       /\ Log(<< "hal_initialize", 0, ok >>)
       /\ IF ok
            THEN app_pc' = "create_modules" /\ UNCHANGED << sd_it, sd_ret >>
            ELSE FailStartup
  /\ UNCHANGED << s_isRunning, m_modules, m_config, handlerSet, idx, exitCode,
                  sigCount,
                  handlerOps >>

\* initializeModules: the module instances are created         (:172-180)
CreateModules ==
  /\ app_pc = "create_modules"
  /\ m_modules' = CreatedModules
  /\ idx' = 1
  /\ app_pc' = "init_module"
  /\ UNCHANGED << s_isRunning, m_config, handlerSet, sd_it, sd_ret, exitCode >>
  /\ AppHistoryUnchanged

\* `if (!module->initialize(*m_config)) { ...; return false; }` and
\* `if (!module->start()) { ...; return false; }`     (:185-188, :110-113)
ModuleCallAborts_never(ok) == FALSE

ModuleCallAborts(ok) == ~ok

\* initializeModules: one round of the loop over m_modules      (:183-189)
InitializeModule ==
  /\ app_pc = "init_module"
  /\ \E ok \in BOOLEAN :
       /\ Log(<< "initialize", m_modules[idx], ok >>)
       /\ IF ~ModuleCallAborts(ok)
            THEN /\ IF idx < Len(m_modules)
                      THEN idx' = idx + 1 /\ app_pc' = "init_module"
                      ELSE idx' = 1 /\ app_pc' = "start_module"
                 /\ UNCHANGED << sd_it, sd_ret >>
            ELSE FailStartup /\ UNCHANGED idx
  /\ UNCHANGED << s_isRunning, m_modules, m_config, handlerSet, exitCode,
                  sigCount,
                  handlerOps >>

\* initialize: one round of the loop that starts the modules    (:108-114)
StartModule ==
  /\ app_pc = "start_module"
  /\ \E ok \in BOOLEAN :
       /\ Log(<< "start", m_modules[idx], ok >>)
       /\ IF ~ModuleCallAborts(ok)
            THEN /\ IF idx < Len(m_modules)
                      THEN idx' = idx + 1 /\ app_pc' = "start_module"
                      ELSE idx' = 0 /\ app_pc' = "store_running"
                 /\ UNCHANGED << sd_it, sd_ret >>
            ELSE FailStartup /\ UNCHANGED idx
  /\ UNCHANGED << s_isRunning, m_modules, m_config, handlerSet, exitCode,
                  sigCount,
                  handlerOps >>

\* run: s_isRunning.store(true)                                       (:74)
StoreRunning ==
  /\ app_pc = "store_running"
  /\ s_isRunning' = RunningValue
  /\ app_pc' = "loop_test"
  /\ UNCHANGED << m_modules, m_config, handlerSet, idx, sd_it, sd_ret,
                  exitCode >>
  /\ AppHistoryUnchanged

\* run: while (s_isRunning.load()), and shutdown() after the loop  (:75, 82)
LoopTest ==
  /\ app_pc = "loop_test"
  /\ IF s_isRunning
       THEN app_pc' = "loop_sleep" /\ UNCHANGED << sd_it, sd_ret >>
       ELSE EnterShutdown("exit_success")
  /\ UNCHANGED << s_isRunning, m_modules, m_config, handlerSet, idx, exitCode >>
  /\ AppHistoryUnchanged

\* run: std::this_thread::sleep_for(100 ms)                           (:78)
LoopSleep ==
  /\ app_pc = "loop_sleep"
  /\ app_pc' = "loop_test"
  /\ UNCHANGED << s_isRunning, m_modules, m_config, handlerSet, idx, sd_it,
                  sd_ret, exitCode >>
  /\ AppHistoryUnchanged

\* shutdown: (*it)->stop() is called                              (:126-128)
StopCall ==
  /\ app_pc = "sd_stop"
  /\ Log(<< "stop_call", StopOrder(m_modules)[sd_it], TRUE >>)
  /\ app_pc' = "sd_stopping"
  /\ UNCHANGED << s_isRunning, m_modules, m_config, handlerSet, idx, sd_it,
                  sd_ret, exitCode, sigCount,
                  handlerOps >>

\* shutdown: stop() returns; ++it; after the last one m_modules.clear()
\*                                                                (:126-132)
StopReturn ==
  /\ app_pc = "sd_stopping"
  /\ Log(<< "stop_return", StopOrder(m_modules)[sd_it], TRUE >>)
  /\ IF sd_it < Len(m_modules)
       THEN /\ sd_it' = sd_it + 1
            /\ app_pc' = "sd_stop"
            /\ UNCHANGED m_modules
       ELSE /\ sd_it' = 0
            /\ m_modules' = ModulesAfterStop(m_modules)
            /\ app_pc' = "sd_hal"
  /\ UNCHANGED << s_isRunning, m_config, handlerSet, idx, sd_ret, exitCode,
                  sigCount,
                  handlerOps >>

\* shutdown: hal_shutdown()                                          (:136)
HalShutdown ==
  /\ app_pc = "sd_hal"
  /\ Log(<< "hal_shutdown", 0, TRUE >>)
  /\ app_pc' = "sd_config"
  /\ UNCHANGED << s_isRunning, m_modules, m_config, handlerSet, idx, sd_it,
                  sd_ret, exitCode, sigCount,
                  handlerOps >>

\* run: `return EXIT_FAILURE;` after the shutdown() that follows a failed
\* initialize(), `return EXIT_SUCCESS;` after the one that follows the
\* main loop                                                     (:64-67, 82-84)
ExitCodeOf_success(ret) == "success"

ExitCodeOf(ret) == IF ret = "exit_success" THEN "success" ELSE "failure"

\* shutdown: via_config_free if m_config is set, then shutdown returns to
\* run(), which returns its exit code, or to the destructor       (:140-147)
FreeConfig ==
  /\ app_pc = "sd_config"
  /\ IF m_config
       THEN Log(<< "config_free", 0, TRUE >>) /\ m_config' = FALSE
       ELSE UNCHANGED << trace, m_config >>
  /\ IF sd_ret = "destroyed"
       THEN app_pc' = "destroyed" /\ UNCHANGED exitCode
       ELSE /\ app_pc' = "returned"
            /\ exitCode' = ExitCodeOf(sd_ret)
  /\ sd_ret' = "none"
  /\ UNCHANGED << s_isRunning, m_modules, handlerSet, idx, sd_it, sigCount,
                  handlerOps >>

\* ~App(), on an App whose run() was never called or has returned  (:51-55)
Destroy ==
  /\ app_pc \in {"created", "returned"}
  /\ EnterShutdown("destroyed")
  /\ UNCHANGED << s_isRunning, m_modules, m_config, handlerSet, idx, exitCode >>
  /\ AppHistoryUnchanged

\* handleSignal: `std::cout << ... << std::endl;` then
\* `s_isRunning.store(false);`                                   (:205-206)
HandlerBody == << "stream_write", "atomic_store" >>

\* SIGINT or SIGTERM is delivered: handleSignal                  (:204-207)
HandleSignal ==
  /\ handlerSet
  /\ app_pc # "destroyed"
  /\ sigCount < MaxSignals
  /\ sigCount' = sigCount + 1
  /\ s_isRunning' = SignalledValue
  /\ handlerOps' = handlerOps \cup Range(HandlerBody)
  /\ UNCHANGED << app_pc, m_modules, m_config, handlerSet, idx, sd_it, sd_ret,
                  exitCode, trace >>

\* the steps of the main thread inside run() and inside the destructor
MainThreadStep ==
  \/ LoadConfiguration \/ InitializeHAL \/ CreateModules \/ InitializeModule
  \/ StartModule \/ StoreRunning \/ LoopTest \/ LoopSleep \/ StopCall
  \/ StopReturn \/ HalShutdown \/ FreeConfig

NextApp ==
  \/ RunCall /\ UNCHANGED notApp
  \/ LoadConfiguration /\ UNCHANGED notApp
  \/ InitializeHAL /\ UNCHANGED notApp
  \/ CreateModules /\ UNCHANGED notApp
  \/ InitializeModule /\ UNCHANGED notApp
  \/ StartModule /\ UNCHANGED notApp
  \/ StoreRunning /\ UNCHANGED notApp
  \/ LoopTest /\ UNCHANGED notApp
  \/ LoopSleep /\ UNCHANGED notApp
  \/ StopCall /\ UNCHANGED notApp
  \/ StopReturn /\ UNCHANGED notApp
  \/ HalShutdown /\ UNCHANGED notApp
  \/ FreeConfig /\ UNCHANGED notApp
  \/ Destroy /\ UNCHANGED notApp
  \/ HandleSignal /\ UNCHANGED notApp

SpecApp == Init /\ [][NextApp]_vars

\* the main thread keeps running: a step it can take is eventually taken
FairSpecApp ==
  /\ Init
  /\ [][NextApp]_vars
  /\ WF_vars(MainThreadStep /\ UNCHANGED notApp)

\* ------------------------------------------------------------------------
\* SafeQueue: specification
\* ------------------------------------------------------------------------
\* the steps that continue an operation already begun
QueueProgress(t) ==
  /\ \/ t \in Consumers /\ qpc[t] = "wap_woken" /\ (WapBlock(t) \/ WapPop(t))
     \/ t = Invalidator /\ NotifyAllWake
  /\ UNCHANGED notQueue

NextQueue ==
  \/ \E i \in Items : PushBody(i) /\ UNCHANGED notQueue
  \/ \E i \in Items : PushNotify(i) /\ UNCHANGED notQueue
  \/ \E c \in Consumers : WapBlock(c) /\ UNCHANGED notQueue
  \/ \E c \in Consumers : WapPop(c) /\ UNCHANGED notQueue
  \/ \E c \in Consumers : SpuriousWake(c) /\ UNCHANGED notQueue
  \/ \E c \in Consumers : TryPop(c) /\ UNCHANGED notQueue
  \/ NotifyAllBody /\ UNCHANGED notQueue
  \/ NotifyAllWake /\ UNCHANGED notQueue

SpecQueue == Init /\ [][NextQueue]_vars

\* fair scheduling: every thread that is inside an operation and able to
\* take its next step eventually takes it
FairSpecQueue ==
  /\ Init
  /\ [][NextQueue]_vars
  /\ \A t \in Threads : WF_vars(QueueProgress(t))
  /\ \A i \in Items : WF_vars(PushNotify(i) /\ UNCHANGED notQueue)

\* ------------------------------------------------------------------------
\* SafeQueue: observations used by the properties
\* ------------------------------------------------------------------------
\* a consumer's wait_and_pop returns in this step
WapReturns == last'.fn = "wap"

WapReturnsTrue == WapReturns /\ last'.res

WapReturnsFalse == WapReturns /\ ~last'.res

\* the notify_one of the push of item i runs in this step
NotifyOneRuns(i) == i \in notifying /\ i \notin notifying'

\* ------------------------------------------------------------------------
\* Properties of SafeQueue
\* ------------------------------------------------------------------------

\* C1: no pushed item is lost and none is returned twice: the items pushed
\* so far are exactly the items popped so far plus the items still queued,
\* without repetition; every pop that returns true hands out an item not
\* handed out before; a wait_and_pop returns false only with nothing
\* queued, that is after every item pushed before it has been returned.
C1_NoLossNoDup ==
  /\ [](/\ NoDup(popped \o m_queue)
        /\ Range(pushed) = Range(popped) \cup Range(m_queue)
        /\ Len(pushed) = Len(popped) + Len(m_queue))
  /\ [][WapReturnsFalse
          => (m_queue = << >> /\ Range(pushed) = Range(popped))]_vars
  /\ [][WapReturnsTrue
          => (/\ last'.val \notin Range(popped)
              /\ last'.val \in Range(pushed)
              /\ popped' = Append(popped, last'.val))]_vars

\* pushed-then-invalidated items were all drained before the final false
C1_Witness ==
  /\ ~m_is_valid
  /\ ~pushAfterInv
  /\ ~emptyAtInv
  /\ Len(pushed) = MaxPush
  /\ popped = pushed
  /\ last.fn = "wap" /\ ~last.res

\* C6: wait_and_pop returns false only on an invalidated, empty queue, and
\* leaves the queue as it is; when it returns true it has removed exactly
\* the front item and handed it to the caller.
C6_FalseOnlyInvalidEmpty ==
  [][/\ WapReturnsFalse =>
          (~m_is_valid /\ m_queue = << >> /\ m_queue' = m_queue)
     /\ WapReturnsTrue =>
          (/\ m_queue # << >>
           /\ Len(m_queue') = Len(m_queue) - 1
           /\ m_queue' = Tail(m_queue)
           /\ last'.val = Head(m_queue))]_vars

\* after one wait_and_pop has returned false, another, woken from its
\* wait by a later push, returns true on the invalidated queue
C6_Witness ==
  /\ ~m_is_valid
  /\ sawFalse
  /\ last.fn = "wap" /\ last.res /\ last.blocked
  /\ last.val = Len(pushed)

\* C7 (as claimed): once a wait_and_pop has returned false, every later
\* wait_and_pop returns false too.
C7_FalseForever ==
  [][sawFalse => ~WapReturnsTrue]_vars

\* C7 (amended): m_is_valid never becomes true again; on the invalidated
\* queue no wait_and_pop blocks, and each returns false exactly when it
\* finds the queue empty, so false is returned forever unless a further
\* push supplies an item.
C7_InvalidationFinal ==
  [][~m_is_valid =>
       /\ ~m_is_valid'
       /\ cv_waiters' \subseteq cv_waiters
       /\ WapReturnsFalse => m_queue = << >>
       /\ WapReturnsTrue => m_queue # << >>]_vars

\* after a false return and a second notify_all the queue is still invalid,
\* and an item pushed later was handed out by wait_and_pop
C7_Witness ==
  /\ sawFalse
  /\ reinvalidated
  /\ qpc[Invalidator] = "idle"
  /\ ~m_is_valid
  /\ pushAfterInv
  /\ last.fn = "wap" /\ last.res /\ last.val = Len(pushed)

\* C8: the queue is FIFO: the pushed sequence is always the popped
\* sequence followed by the queue content (so what has been popped is a
\* prefix of what has been pushed); an item enters the queue behind every
\* item whose push has already completed and that is still queued, and
\* every removal takes the item at the front.
C8_Fifo ==
  /\ [](pushed = popped \o m_queue)
  /\ [][\A b \in Items :
          (b \notin Range(m_queue) /\ b \in Range(m_queue')) =>
            \A a \in CompletedPushes :
              \/ a \in Range(popped)
              \/ /\ a \in Range(m_queue')
                 /\ IndexOf(m_queue', a) < IndexOf(m_queue', b)]_vars
  /\ [][popped' # popped =>
          (/\ m_queue # << >>
           /\ popped' = Append(popped, Head(m_queue))
           /\ \A a \in Range(m_queue') : a \notin Range(popped'))]_vars

\* items pushed one after the other have all been removed, the last one by
\* try_pop, in the order of their pushes
C8_Witness ==
  /\ Len(popped) = MaxPush
  /\ popped = pushed
  /\ last.fn = "try" /\ last.res /\ last.val = MaxPush

Calls(kind, m) ==
  { i \in 1..Len(trace) : trace[i][1] = kind /\ trace[i][2] = m }

\* positions of the trace where `kind` on module m returned `ok`
Results(kind, m, ok) ==
  { i \in Calls(kind, m) : trace[i][3] = ok }

StartFailed(k) == Results("start", k, FALSE) # {}

InitFailed(k) == Results("initialize", k, FALSE) # {}

StartedOk(j) == Results("start", j, TRUE) # {}

RunReturned == exitCode # "none"

\* ------------------------------------------------------------------------
\* Properties of App
\* ------------------------------------------------------------------------

\* C2: when some module's start() has failed, every module whose start()
\* had returned true gets stop() at most once at any time, and exactly once,
\* returned, from the moment run() has returned until after destruction.
C2_UnwindStopsStarted ==
  \A k \in Modules : StartFailed(k) =>
    \A j \in Modules : StartedOk(j) =>
      /\ Cardinality(Calls("stop_call", j)) <= 1
      /\ RunReturned =>
           /\ Cardinality(Calls("stop_call", j)) = 1
           /\ Cardinality(Calls("stop_return", j)) = 1

\* the last module's start() failed after the first one had started, and
\* the App has been destroyed
C2_Witness ==
  /\ app_pc = "destroyed"
  /\ StartFailed(NumModules)
  /\ StartedOk(1)
  /\ Cardinality(Calls("stop_call", 1)) = 1

\* C3: when initialize() or start() of module k has failed, no module
\* after k in the list has had start() or stop() called on it.
C3_UnreachedUntouched ==
  \A k \in Modules : (InitFailed(k) \/ StartFailed(k)) =>
    \A j \in Modules : j > k =>
      /\ Calls("start", j) = {}
      /\ Calls("stop_call", j) = {}

\* C4: stop() is called in the reverse of the start order (a module started
\* later has its stop() returned before an earlier one's is called), one
\* stop() at a time; hal_shutdown comes only after stop() has returned on
\* every module of the list; the configuration is freed right after a
\* hal_shutdown.
C4_ShutdownOrder ==
  /\ \A i, j \in 1..Len(trace) :
       (trace[i][1] = "start" /\ trace[j][1] = "start" /\ i < j) =>
         \A q \in Calls("stop_call", trace[i][2]) :
           \E r \in Calls("stop_return", trace[j][2]) : r < q
  /\ \A i \in 1..Len(trace) :
       (trace[i][1] = "stop_call" /\ i < Len(trace)) =>
         trace[i + 1] = << "stop_return", trace[i][2], TRUE >>
  /\ \A h \in 1..Len(trace) : trace[h][1] = "hal_shutdown" =>
       /\ h > 1 => trace[h - 1][1] # "stop_call"
       /\ \A m \in Modules :
            (\E i \in 1..h : trace[i][1] = "initialize") =>
              \E r \in Calls("stop_return", m) : r < h
  /\ \A f \in 1..Len(trace) : trace[f][1] = "config_free" =>
       (f > 1 /\ trace[f - 1][1] = "hal_shutdown")

\* run() has returned success: every module was started and stopped, the
\* HAL shut down and the configuration freed
C4_Witness ==
  /\ exitCode = "success"
  /\ \A m \in Modules : StartedOk(m) /\ Calls("stop_return", m) # {}
  /\ ~m_config

\* C5: a signal delivered once run() has installed the handler leads to
\* run() returning.
C5_SignalStopsRun == (sigCount > 0) ~> RunReturned


\* the rank of a startup call in the order load config, init HAL,
\* initialize modules, start modules; 0 for a call of the shutdown path
StartupRank(kind) ==
  CASE kind = "config_load" -> 1
    [] kind = "hal_initialize" -> 2
    [] kind = "initialize" -> 3
    [] kind = "start" -> 4
    [] OTHER -> 0

StartupCalls == { i \in 1..Len(trace) : StartupRank(trace[i][1]) > 0 }

\* C11: startup calls come in the order load config, init HAL, (construct,)
\* initialize modules in list order, start modules in list order; a startup
\* call is made only when every earlier startup call succeeded, so none
\* follows the first failure; modules exist only once the HAL is up; and
\* start() is called only when initialize() returned true for every module.
C11_StartupOrder ==
  /\ \A i, j \in StartupCalls : i < j =>
       /\ trace[i][3] = TRUE
       /\ StartupRank(trace[i][1]) <= StartupRank(trace[j][1])
       /\ StartupRank(trace[i][1]) = StartupRank(trace[j][1])
            => trace[i][2] < trace[j][2]
  /\ (Len(trace) > 0 /\ StartupCalls # {}) => trace[1][1] = "config_load"
  /\ \A i \in StartupCalls :
       /\ trace[i][1] = "initialize" =>
            /\ Results("hal_initialize", 0, TRUE) # {}
            /\ \A m \in Modules : m < trace[i][2] =>
                 Results("initialize", m, TRUE) # {}
       /\ trace[i][1] = "start" =>
            /\ \A m \in Modules : \E h \in Results("initialize", m, TRUE) :
                 h < i
            /\ \A m \in Modules : m < trace[i][2] =>
                 Results("start", m, TRUE) # {}
  /\ m_modules # << >> => Results("hal_initialize", 0, TRUE) # {}
  /\ app_pc \in {"init_module", "start_module"} => m_modules = CreatedModules

\* the last module's initialize() failed after the first one's succeeded,
\* and run() has returned failure without any start()
C11_Witness ==
  /\ exitCode = "failure"
  /\ InitFailed(NumModules)
  /\ Results("initialize", 1, TRUE) # {}
  /\ \A m \in Modules : Calls("start", m) = {}


\* ------------------------------------------------------------------------
\* Camera HAL, V4L2 memory-mapped backend (modules/hal-c/src/camera.c)
\* ------------------------------------------------------------------------
\* #define V4L2_BUFFER_COUNT 4                                         (:34)
V4L2_BUFFER_COUNT == 4

Slots == 1..n_buffers

\* buffers[i].start: the address slot i is mapped at; distinct slots are
\* mapped at distinct non-null addresses                               (:151)
BufferStart(i) == i

\* release_frame: the slot whose mapping starts at `data`, 0 when the loop
\* over the slots finds none (index_to_release stays -1)          (:363-369)
FindSlot_none(data) == 0

FindSlot(data) ==
  IF \E i \in Slots : BufferStart(i) = data
    THEN CHOOSE i \in Slots :
           /\ BufferStart(i) = data
           /\ \A j \in Slots : BufferStart(j) = data => i <= j
    ELSE 0

\* slots the driver owns: queued for capture or filled
DriverSlots == Range(cam_queued) \cup Range(cam_filled)

\* VIDIOC_QBUF on slot i: the driver accepts a slot it does not own
QbufAccepted(i) == i \in Slots /\ i \notin DriverSlots

\* the slots after release_frame(frame with data pointer `data`): the slot
\* found is queued again; nothing happens when none is found or the driver
\* refuses it                                                     (:371-380)
QueuedAfterRelease_unchecked(data) ==
  IF FindSlot(data) # 0 THEN Append(cam_queued, FindSlot(data))
                        ELSE cam_queued

QueuedAfterRelease(data) ==
  IF FindSlot(data) # 0 /\ QbufAccepted(FindSlot(data))
    THEN Append(cam_queued, FindSlot(data))
    ELSE cam_queued

\* the order in which start_capture queues the slots             (:239-248)
RECURSIVE AllSlots(_)
AllSlots(n) == IF n = 0 THEN << >> ELSE Append(AllSlots(n - 1), n)

\* select() finds the device readable: a filled slot is waiting      (:278)
SelectReady == cam_filled # << >>

\* the hardware fills the slot queued first and hands it back
HwFill ==
  /\ streaming
  /\ cam_queued # << >>
  /\ cam_filled' = Append(cam_filled, Head(cam_queued))
  /\ cam_queued' = Tail(cam_queued)
  /\ UNCHANGED << n_buffers, streaming, p_isRunning, p_pc, frame, stage,
                  scene, iter, cycles, prevFailed >>


\* ------------------------------------------------------------------------
\* PerceptionEngine: the frame loop over the camera HAL and the pipeline
\* (modules/perception/include/via/perception/PerceptionEngine.h)
\* ------------------------------------------------------------------------
NumStages == 3
MaxCycles == V4L2_BUFFER_COUNT + 1

Stages == 1..NumStages

\* the stage run after stage k succeeded, 0 after the last one
NextStage_ignoreFailure(k, ok) == IF k < NumStages THEN k + 1 ELSE 0

NextStage(k, ok) == IF ok /\ k < NumStages THEN k + 1 ELSE 0

CameraUnchanged == UNCHANGED << n_buffers, cam_queued, cam_filled, streaming >>

\* initialize(): hal_camera_open maps the slots the driver grants; any
\* failure fails the initialization                      (camera.c:83-206)
PerceptionInitialize ==
  /\ p_pc = "created"
  /\ \E n \in 0..V4L2_BUFFER_COUNT :
       IF n = 0
         THEN p_pc' = "init_failed" /\ UNCHANGED n_buffers
         ELSE p_pc' = "initialized" /\ n_buffers' = n
  /\ UNCHANGED << cam_queued, cam_filled, streaming, p_isRunning, frame,
                  stage, scene, iter, cycles, prevFailed >>

\* start(): hal_camera_start_capture queues every slot and starts the
\* stream, then the worker thread is spawned            (camera.c:232-260)
PerceptionStart ==
  /\ p_pc = "initialized"
  /\ \E ok \in BOOLEAN :
       IF ok
         THEN /\ cam_queued' = AllSlots(n_buffers)
              /\ streaming' = TRUE
              /\ p_isRunning' = TRUE
              /\ p_pc' = "loop_test"
         ELSE /\ p_pc' = "start_failed"
              /\ UNCHANGED << cam_queued, streaming, p_isRunning >>
  /\ UNCHANGED << n_buffers, cam_filled, frame, stage, scene, iter, cycles,
                  prevFailed >>

\* stop(), called from another thread: the flag the loop tests is cleared
PerceptionStop ==
  /\ p_isRunning
  /\ p_isRunning' = FALSE
  /\ CameraUnchanged
  /\ UNCHANGED << p_pc, frame, stage, scene, iter, cycles, prevFailed >>

\* perceptionLoop: while (m_isRunning)
PerceptionLoopTest ==
  /\ p_pc = "loop_test"
  /\ p_pc' = IF p_isRunning THEN "grab" ELSE "done"
  /\ CameraUnchanged
  /\ UNCHANGED << p_isRunning, frame, stage, scene, iter, cycles, prevFailed >>

\* timeout/IOError => skip the iteration
SkipsIteration_onlyTimeout(status) == status = "Timeout"

SkipsIteration(status) == status # "Ok"

\* what the loop does with the status hal_camera_grab_frame returned: skip
\* the iteration, or construct a new SceneData and run the pipeline
AfterGrab(status) ==
  /\ iter' = << << "grab", status, frame' >> >>
  /\ IF SkipsIteration(status)
       THEN p_pc' = "loop_test" /\ UNCHANGED << scene, stage >>
       ELSE p_pc' = "pipeline" /\ scene' = FreshScene /\ stage' = 1
  /\ UNCHANGED << p_isRunning, cycles, prevFailed >>

\* hal_camera_grab_frame returns HAL_STATUS_OK: select() found the device
\* readable and VIDIOC_DQBUF handed out the slot filled first
\*                                                (camera.c:278, 289-299)
GrabOk ==
  /\ p_pc = "grab"
  /\ SelectReady
  /\ frame' = BufferStart(Head(cam_filled))
  /\ cam_filled' = Tail(cam_filled)
  /\ UNCHANGED << n_buffers, cam_queued, streaming >>
  /\ AfterGrab("Ok")

\* hal_camera_grab_frame returns HAL_STATUS_TIMEOUT: select() returned 0,
\* no slot was filled within timeout_ms                 (camera.c:284-286)
GrabTimeout ==
  /\ p_pc = "grab"
  /\ ~SelectReady
  /\ UNCHANGED frame
  /\ CameraUnchanged
  /\ AfterGrab("Timeout")

\* hal_camera_grab_frame returns HAL_STATUS_IO_ERROR: select() returned -1
\* (interrupted by a signal)                            (camera.c:280-283)
GrabIOError ==
  /\ p_pc = "grab"
  /\ UNCHANGED frame
  /\ CameraUnchanged
  /\ AfterGrab("IOError")

\* the current stage's process(scene) runs; on success its result is in
\* the SceneData, on failure the remaining stages are skipped
RunStage ==
  /\ p_pc = "pipeline"
  /\ \E ok \in BOOLEAN :
       /\ iter' = Append(iter, << "stage", stage, ok >>)
       /\ scene' = IF ok
                     THEN [scene EXCEPT !.results = @ \cup {stage}]
                     ELSE [scene EXCEPT !.valid = FALSE]
       /\ stage' = NextStage(stage, ok)
       /\ p_pc' = IF NextStage(stage, ok) = 0 THEN "release" ELSE "pipeline"
  /\ CameraUnchanged
  /\ UNCHANGED << p_isRunning, frame, cycles, prevFailed >>

\* hal_camera_release_frame(camera, &frame)             (camera.c:356-380)
ReleaseFrame ==
  /\ p_pc = "release"
  /\ cam_queued' = QueuedAfterRelease(frame)
  /\ iter' = Append(iter, << "release", frame, TRUE >>)
  /\ frame' = 0
  /\ cycles' = IF cycles < MaxCycles THEN cycles + 1 ELSE cycles
  /\ p_pc' = "publish"
  /\ UNCHANGED << n_buffers, cam_filled, streaming, p_isRunning, stage, scene,
                  prevFailed >>

\* the aggregate is published when every stage succeeded, and the
\* iteration ends
Publish ==
  /\ p_pc = "publish"
  /\ iter' = IF scene.valid THEN Append(iter, << "publish", 0, TRUE >>)
                            ELSE iter
  /\ prevFailed' = ~scene.valid
  /\ p_pc' = "loop_test"
  /\ CameraUnchanged
  /\ UNCHANGED << p_isRunning, frame, stage, scene, cycles >>

\* the steps of the perception worker thread
PerceptionThreadStep ==
  \/ PerceptionLoopTest \/ GrabOk \/ GrabTimeout \/ GrabIOError \/ RunStage
  \/ ReleaseFrame \/ Publish

NextPerception ==
  \/ PerceptionInitialize /\ UNCHANGED notPerception
  \/ PerceptionStart /\ UNCHANGED notPerception
  \/ PerceptionStop /\ UNCHANGED notPerception
  \/ PerceptionLoopTest /\ UNCHANGED notPerception
  \/ GrabOk /\ UNCHANGED notPerception
  \/ GrabTimeout /\ UNCHANGED notPerception
  \/ GrabIOError /\ UNCHANGED notPerception
  \/ RunStage /\ UNCHANGED notPerception
  \/ ReleaseFrame /\ UNCHANGED notPerception
  \/ Publish /\ UNCHANGED notPerception
  \/ HwFill /\ UNCHANGED notPerception

SpecPerception == Init /\ [][NextPerception]_vars

\* the worker thread keeps running, the hardware keeps filling queued
\* slots, and select() is not interrupted for ever
FairSpecPerception ==
  /\ Init
  /\ [][NextPerception]_vars
  /\ WF_vars(PerceptionThreadStep /\ UNCHANGED notPerception)
  /\ WF_vars(HwFill /\ UNCHANGED notPerception)
  /\ SF_vars(GrabOk /\ UNCHANGED notPerception)


\* ------------------------------------------------------------------------
\* Frame loop: observations used by the properties
\* ------------------------------------------------------------------------
\* positions of the current iteration's calls of one kind
IterCalls(kind) == { i \in 1..Len(iter) : iter[i][1] = kind }

\* the current iteration's grab returned HAL_STATUS_OK
GrabbedOk == iter # << >> /\ iter[1][2] = "Ok"

\* the worker is between two iterations of the loop
BetweenIterations == p_pc \in {"loop_test", "grab", "done"}

\* hal_camera_grab_frame returns `status` in this step
GrabReturns(status) ==
  p_pc = "grab" /\ p_pc' # "grab" /\ iter'[1][2] = status

\* ------------------------------------------------------------------------
\* Properties of the frame loop and of the camera
\* ------------------------------------------------------------------------

\* C12: an iteration starts with its one grab; an iteration whose grab
\* returned Timeout or IOError makes no other call (no stage, no release);
\* a frame grabbed with Ok is passed to release_frame at most once, with
\* the data pointer that was grabbed, after the stages that ran on it, and
\* exactly once by the time the iteration is over (before the next grab);
\* the loop holds a frame exactly from its grab to its release.
C12_ReleaseOncePerFrame ==
  /\ iter # << >> => IterCalls("grab") = {1}
  /\ ~GrabbedOk => Len(iter) <= 1
  /\ Cardinality(IterCalls("release")) <= 1
  /\ \A r \in IterCalls("release") :
       /\ iter[r][2] = iter[1][3]
       /\ IterCalls("stage") # {}
       /\ \A t \in IterCalls("stage") : t < r
  /\ (BetweenIterations /\ GrabbedOk) =>
       Cardinality(IterCalls("release")) = 1
  /\ frame # 0 <=> (GrabbedOk /\ IterCalls("release") = {})

\* a second frame has been grabbed, processed and released
C12_Witness ==
  /\ p_pc = "loop_test"
  /\ GrabbedOk
  /\ Cardinality(IterCalls("release")) = 1
  /\ cycles >= 2

\* C13: with every frame released before the next grab, all n_buffers
\* slots are with the driver (queued or filled) at every grab; a grab times
\* out only while a slot is queued for the hardware to fill, never because
\* no slot is left; and, the hardware filling queued slots, each
\* grab/release cycle is followed by another one, beyond n_buffers + 1
\* cycles, until the loop is stopped.
C13_SlotsNeverRunOut ==
  /\ [](BetweenIterations /\ streaming =>
          /\ frame = 0
          /\ DriverSlots = Slots
          /\ Len(cam_queued) + Len(cam_filled) = n_buffers)
  /\ [][GrabReturns("Timeout") => cam_queued # << >>]_vars
  /\ \A k \in 0..(MaxCycles - 1) :
       (streaming /\ cycles = k) ~> (cycles > k \/ p_pc = "done")

\* one cycle more than the slots of the largest ring has completed and the
\* next grab is about to be made
C13_Witness ==
  /\ n_buffers = V4L2_BUFFER_COUNT
  /\ cycles = V4L2_BUFFER_COUNT + 1
  /\ p_pc = "grab"
  /\ cam_filled # << >>

\* C14: the stages run on a frame are stages 1, 2, ... in registration
\* order, starting from the first; a stage runs only if every stage before
\* it succeeded on this frame, so none runs after a failure; the SceneData
\* holds the results of this frame's successful stages and nothing else,
\* whatever happened to the previous frame.
C14_FailFastPerFrame ==
  /\ \A t \in IterCalls("stage") :
       /\ iter[t][2] = t - 1
       /\ \A u \in IterCalls("stage") : t < u => iter[t][3] = TRUE
  /\ GrabbedOk =>
       /\ scene.results =
            { k \in Stages : \E t \in IterCalls("stage") :
                               iter[t][2] = k /\ iter[t][3] = TRUE }
       /\ scene.valid <=> \A t \in IterCalls("stage") : iter[t][3] = TRUE
  /\ p_pc = "pipeline" =>
       /\ stage = Cardinality(IterCalls("stage")) + 1
       /\ scene.results = 1..(stage - 1)
  /\ (BetweenIterations /\ GrabbedOk /\ scene.valid) =>
       \A k \in Stages : \E t \in IterCalls("stage") : iter[t][2] = k

\* a stage before the last failed on the previous frame, and every stage
\* has run on the current one
C14_Witness ==
  /\ prevFailed
  /\ GrabbedOk
  /\ scene.results = Stages
  /\ p_pc = "release"


\* ------------------------------------------------------------------------
\* LlmInterpreter (unnamed/part_006): one thread calls initialize, start
\* and stop; start spawns a worker running reasoningLoop over m_task_queue;
\* any thread may call submitPrompt
\* ------------------------------------------------------------------------
\* the process has not been ended by std::terminate
LlmAlive == llm_cpc # "crashed"

\* a step outside m_task_queue: the queue is as it was, and the step is
\* not the return of a pop
QueueUntouched ==
  /\ UNCHANGED << m_queue, m_is_valid, cv_waiters, qpc, notifying >>
  /\ QueueHistoryUnchanged

Workers == { w \in Consumers : llm_wpc[w] \notin {"none", "exited"} }

\* thread identities not in use: never spawned, or joined
FreeWorkers == { w \in Consumers : llm_wpc[w] = "none" }

\* the identity the next std::thread gets
FreshWorker == CHOOSE w \in FreeWorkers : \A v \in FreeWorkers : w <= v

\* the worker spawned by the start() in progress: the one m_thread does
\* not hold
NewestWorker == CHOOSE w \in Consumers : llm_wpc[w] # "none" /\ w # llm_thread

\* the lifecycle state the fields stand for: the queue is invalidated by
\* the first effective stop() and never validated again; a module whose
\* stop() has cleared the flag and not yet invalidated the queue is
\* stopped already
LifecycleOf(model, context, running, valid) ==
  IF running THEN "Running"
  ELSE IF ~valid THEN "Stopped"
  ELSE IF model /\ context THEN "Initialized"
  ELSE "Created"

LifecycleState ==
  LifecycleOf(llm_model, llm_context, llm_isRunning,
              m_is_valid /\ llm_cpc \notin {"stop_notify", "stop_wake",
                                            "stop_join"})

\* the order of the lifecycle: initialize, then start, then stop
LifecycleRank(state) ==
  CASE state = "Created" -> 1
    [] state = "Initialized" -> 2
    [] state = "Running" -> 3
    [] state = "Stopped" -> 4

\* start(): `if (!m_context || !m_model) return false;`          (:271-274)
StartRefused == ~llm_context \/ ~llm_model

\* stop(): `if (m_isRunning.exchange(false))`                         (:282)
StopProceeds_always(wasRunning) == TRUE

StopProceeds(wasRunning) == wasRunning

\* reasoningLoop: `while (m_isRunning.load())`                        (:313)
LoopCondition_always(running) == TRUE

LoopCondition(running) == running

\* reasoningLoop: set_value(result) when generateResponse returned,
\* set_exception when it threw                                   (:318-323)
Fulfilment_both(ok) == IF ok THEN << "value" >> ELSE << "value", "exception" >>

Fulfilment(ok) == IF ok THEN << "value" >> ELSE << "exception" >>

LlmHistoryUnchanged == UNCHANGED llm_lateSubmit

\* initialize(): the model is loaded, then the context created; a failure
\* before the load changes nothing, a failed load or a failed context
\* creation leaves m_model null                                  (:221-268)
\* It is called during startup only, on a module not yet initialized
\* (IModule.h:50).
LlmInitialize ==
  /\ llm_cpc = "idle"
  /\ ~llm_model /\ ~llm_context
  /\ \E r \in {"no_path", "load_failed", "context_failed", "ok"} :
       /\ llm_model' = CASE r = "no_path" -> llm_model
                          [] r = "ok" -> TRUE
                          [] OTHER -> FALSE
       /\ llm_context' = CASE r = "no_path" -> llm_context
                            [] r = "load_failed" -> llm_context
                            [] r = "ok" -> TRUE
                            [] OTHER -> FALSE
  /\ UNCHANGED << llm_isRunning, llm_thread, llm_cpc, llm_wpc, llm_task,
                  llm_promise >>
  /\ LlmHistoryUnchanged
  /\ QueueUntouched

\* start(): the flag is set and std::thread(&reasoningLoop, this) is
\* constructed, the new thread starts to run                     (:270-276)
LlmStartSpawn ==
  /\ llm_cpc = "idle"
  /\ IF StartRefused
       THEN UNCHANGED << llm_isRunning, llm_cpc, llm_wpc >>
       ELSE /\ FreeWorkers # {}
            /\ llm_wpc' = [llm_wpc EXCEPT ![FreshWorker] = "test"]
            /\ llm_isRunning' = TRUE
            /\ llm_cpc' = "start_assign"
  /\ UNCHANGED << llm_model, llm_context, llm_thread, llm_task, llm_promise >>
  /\ LlmHistoryUnchanged
  /\ QueueUntouched

\* start(): `m_thread = std::thread(...)`: move assignment to a joinable
\* std::thread calls std::terminate; otherwise m_thread holds the new
\* worker and start() returns true                               (:276-278)
LlmStartAssign ==
  /\ llm_cpc = "start_assign"
  /\ IF llm_thread # 0
       THEN llm_cpc' = "crashed" /\ UNCHANGED llm_thread
       ELSE llm_cpc' = "idle" /\ llm_thread' = NewestWorker
  /\ UNCHANGED << llm_model, llm_context, llm_isRunning, llm_wpc, llm_task,
                  llm_promise >>
  /\ LlmHistoryUnchanged
  /\ QueueUntouched

\* stop(): m_isRunning.exchange(false); a call that finds the flag clear
\* skips the body                                                (:281-282)
LlmStopCall ==
  /\ llm_cpc = "idle"
  /\ llm_isRunning' = FALSE
  /\ llm_cpc' = IF StopProceeds(llm_isRunning) THEN "stop_notify"
                                                ELSE "stop_skip"
  /\ llm_lateSubmit' =
       (llm_lateSubmit \/ (StopProceeds(llm_isRunning) /\ notifying # {}))
  /\ UNCHANGED << llm_model, llm_context, llm_thread, llm_wpc, llm_task,
                  llm_promise >>
  /\ QueueUntouched

\* stop(): m_task_queue.notify_all(), its critical section           (:284)
LlmStopNotifyBody ==
  /\ llm_cpc = "stop_notify"
  /\ NotifyAllBody
  /\ llm_cpc' = "stop_wake"
  /\ UNCHANGED << llm_model, llm_context, llm_isRunning, llm_thread, llm_wpc,
                  llm_task, llm_promise >>
  /\ LlmHistoryUnchanged

\* stop(): m_task_queue.notify_all(), the waiters are woken          (:284)
LlmStopNotifyWake ==
  /\ llm_cpc = "stop_wake"
  /\ NotifyAllWake
  /\ llm_cpc' = "stop_join"
  /\ UNCHANGED << llm_model, llm_context, llm_isRunning, llm_thread, llm_wpc,
                  llm_task, llm_promise >>
  /\ LlmHistoryUnchanged

\* stop(): `if (m_thread.joinable()) m_thread.join();` returns once the
\* worker has left reasoningLoop, and stop() returns           (:285-289)
LlmStopJoin ==
  /\ llm_cpc = "stop_join"
  /\ IF llm_thread # 0
       THEN /\ llm_wpc[llm_thread] = "exited"
            /\ llm_wpc' = [llm_wpc EXCEPT ![llm_thread] = "none"]
            /\ llm_thread' = 0
       ELSE UNCHANGED << llm_thread, llm_wpc >>
  /\ llm_cpc' = "idle"
  /\ UNCHANGED << llm_model, llm_context, llm_isRunning, llm_task,
                  llm_promise >>
  /\ LlmHistoryUnchanged
  /\ QueueUntouched

\* stop(): the call that skipped the body returns           (:282, 289-290)
LlmStopSkip ==
  /\ llm_cpc = "stop_skip"
  /\ llm_cpc' = "idle"
  /\ UNCHANGED << llm_model, llm_context, llm_isRunning, llm_thread, llm_wpc,
                  llm_task, llm_promise >>
  /\ LlmHistoryUnchanged
  /\ QueueUntouched

\* a call of stop() has found the flag set: it is in progress, or it has
\* invalidated the queue
StopCalled ==
  llm_cpc \in {"stop_notify", "stop_wake", "stop_join"} \/ ~m_is_valid

\* submitPrompt: the task and its promise are created and pushed
\*                                                             (:300-306)
LlmSubmitPush(i) ==
  /\ LlmAlive
  /\ PushBody(i)
  /\ llm_lateSubmit' = (llm_lateSubmit \/ StopCalled)
  /\ UNCHANGED << llm_model, llm_context, llm_isRunning, llm_thread, llm_cpc,
                  llm_wpc, llm_task, llm_promise >>

\* submitPrompt: push's notify_one                     (SafeQueue.h:72)
LlmSubmitNotify(i) ==
  /\ LlmAlive
  /\ PushNotify(i)
  /\ UNCHANGED lvars

\* reasoningLoop: while (m_isRunning.load())                          (:313)
WorkerTest(w) ==
  /\ LlmAlive
  /\ llm_wpc[w] = "test"
  /\ llm_wpc' = [llm_wpc EXCEPT
                   ![w] = IF LoopCondition(llm_isRunning) THEN "wap"
                                                          ELSE "exited"]
  /\ UNCHANGED << llm_model, llm_context, llm_isRunning, llm_thread, llm_cpc,
                  llm_task, llm_promise >>
  /\ LlmHistoryUnchanged
  /\ QueueUntouched

\* reasoningLoop: wait_and_pop blocks                                 (:315)
WorkerWaitBlock(w) ==
  /\ LlmAlive
  /\ llm_wpc[w] = "wap"
  /\ WapBlock(w)
  /\ UNCHANGED lvars

\* reasoningLoop: the blocked wait_and_pop wakes spuriously           (:315)
WorkerSpuriousWake(w) ==
  /\ LlmAlive
  /\ llm_wpc[w] = "wap"
  /\ SpuriousWake(w)
  /\ UNCHANGED lvars

\* reasoningLoop: wait_and_pop returns, true with a task or false     (:315)
WorkerWaitReturn(w) ==
  /\ LlmAlive
  /\ llm_wpc[w] = "wap"
  /\ WapPop(w)
  /\ IF last'.res
       THEN /\ llm_task' = [llm_task EXCEPT ![w] = last'.val]
            /\ llm_wpc' = [llm_wpc EXCEPT ![w] = "recheck"]
       ELSE /\ llm_wpc' = [llm_wpc EXCEPT ![w] = "test"]
            /\ UNCHANGED llm_task
  /\ UNCHANGED << llm_model, llm_context, llm_isRunning, llm_thread, llm_cpc,
                  llm_promise >>
  /\ LlmHistoryUnchanged

\* reasoningLoop: `if (!m_isRunning.load()) break;`: the task popped is
\* destroyed with the loop's scope                                     (:316)
WorkerRecheck(w) ==
  /\ LlmAlive
  /\ llm_wpc[w] = "recheck"
  /\ IF llm_isRunning
       THEN /\ llm_wpc' = [llm_wpc EXCEPT ![w] = "generate"]
            /\ UNCHANGED llm_task
       ELSE /\ llm_wpc' = [llm_wpc EXCEPT ![w] = "exited"]
            /\ llm_task' = [llm_task EXCEPT ![w] = 0]
  /\ UNCHANGED << llm_model, llm_context, llm_isRunning, llm_thread, llm_cpc,
                  llm_promise >>
  /\ LlmHistoryUnchanged
  /\ QueueUntouched

\* reasoningLoop: generateResponse returns or throws, and the promise is
\* fulfilled                                                     (:318-324)
WorkerGenerate(w) ==
  /\ LlmAlive
  /\ llm_wpc[w] = "generate"
  /\ \E ok \in BOOLEAN :
       llm_promise' = [llm_promise EXCEPT
                         ![llm_task[w]] = @ \o Fulfilment(ok)]
  /\ llm_task' = [llm_task EXCEPT ![w] = 0]
  /\ llm_wpc' = [llm_wpc EXCEPT ![w] = "test"]
  /\ UNCHANGED << llm_model, llm_context, llm_isRunning, llm_thread, llm_cpc >>
  /\ LlmHistoryUnchanged
  /\ QueueUntouched

\* the steps a worker takes by itself
WorkerStep(w) ==
  \/ WorkerTest(w) \/ WorkerWaitBlock(w) \/ WorkerWaitReturn(w)
  \/ WorkerRecheck(w) \/ WorkerGenerate(w)

\* the steps inside a call of stop()
StopStep ==
  LlmStopNotifyBody \/ LlmStopNotifyWake \/ LlmStopJoin \/ LlmStopSkip

NextLlm ==
  \/ LlmInitialize /\ UNCHANGED notLlm
  \/ LlmStartSpawn /\ UNCHANGED notLlm
  \/ LlmStartAssign /\ UNCHANGED notLlm
  \/ LlmStopCall /\ UNCHANGED notLlm
  \/ LlmStopNotifyBody /\ UNCHANGED notLlm
  \/ LlmStopNotifyWake /\ UNCHANGED notLlm
  \/ LlmStopJoin /\ UNCHANGED notLlm
  \/ LlmStopSkip /\ UNCHANGED notLlm
  \/ \E i \in Items : LlmSubmitPush(i) /\ UNCHANGED notLlm
  \/ \E i \in Items : LlmSubmitNotify(i) /\ UNCHANGED notLlm
  \/ \E w \in Consumers : WorkerTest(w) /\ UNCHANGED notLlm
  \/ \E w \in Consumers : WorkerWaitBlock(w) /\ UNCHANGED notLlm
  \/ \E w \in Consumers : WorkerSpuriousWake(w) /\ UNCHANGED notLlm
  \/ \E w \in Consumers : WorkerWaitReturn(w) /\ UNCHANGED notLlm
  \/ \E w \in Consumers : WorkerRecheck(w) /\ UNCHANGED notLlm
  \/ \E w \in Consumers : WorkerGenerate(w) /\ UNCHANGED notLlm

SpecLlm == Init /\ [][NextLlm]_vars

\* every worker thread and the thread inside stop() keep running
FairSpecLlm ==
  /\ Init
  /\ [][NextLlm]_vars
  /\ \A w \in Consumers : WF_vars(WorkerStep(w) /\ UNCHANGED notLlm)
  /\ WF_vars(StopStep /\ UNCHANGED notLlm)


\* ------------------------------------------------------------------------
\* Properties of LlmInterpreter
\* ------------------------------------------------------------------------
\* a call of stop() that found the flag set is in progress
InStop == llm_cpc \in {"stop_notify", "stop_wake", "stop_join"}

\* no worker thread exists
NoWorker == \A w \in Consumers : llm_wpc[w] = "none"

\* C15: a call of stop() returns, whatever the worker was doing when the
\* flag was cleared (testing the flag, entering wait_and_pop, blocked in
\* it, holding a task); when it returns, and whenever the module is not
\* running and no call is in progress, no worker thread is alive.
C15_StopJoinsWorker ==
  /\ InStop ~> (llm_cpc = "idle")
  /\ [][(llm_cpc = "stop_join" /\ llm_cpc' = "idle")
          => NoWorker']_vars
  /\ []((llm_cpc = "idle" /\ ~llm_isRunning) => NoWorker)

\* the worker was blocked in wait_and_pop when stop() ran, stop()'s
\* notify_all has woken it, and stop() is waiting in join
C15_Witness ==
  /\ llm_cpc = "stop_join"
  /\ llm_thread # 0
  /\ llm_wpc[llm_thread] = "wap"
  /\ qpc[llm_thread] = "wap_woken"
  /\ ~m_is_valid

\* no call of stop() or start() is in progress and the last effective
\* call was stop(): it has returned
StopReturned == llm_cpc = "idle" /\ ~llm_isRunning /\ ~m_is_valid

\* the tasks submitPrompt has pushed
Submitted == Range(pushed)

\* C16: shutdown discards no work: when stop() has returned and every
\* submitPrompt had returned before stop() was called, each submitted task
\* has had its promise fulfilled by the worker, whether stop() found it in
\* the queue or already popped.
C16_NoTaskDiscarded ==
  (StopReturned /\ ~llm_lateSubmit)
    => \A i \in Submitted : llm_promise[i] # << >>

\* worker w finishes processing its task in this step
Processes(w) == llm_wpc[w] = "generate" /\ llm_wpc'[w] # "generate"

\* C17: the promise of a task is fulfilled at most once, with a value or
\* with an exception and never both; the step in which the worker finishes
\* a task fulfils that task's promise, until then unfulfilled, exactly
\* once; a fulfilled promise never changes.
C17_FulfilledExactlyOnce ==
  /\ [](\A i \in Items :
          llm_promise[i] \in {<< >>, << "value" >>, << "exception" >>})
  /\ [][\A w \in Consumers :
          Processes(w) => /\ llm_promise[llm_task[w]] = << >>
                          /\ Len(llm_promise'[llm_task[w]]) = 1]_vars
  /\ [][\A i \in Items :
          llm_promise[i] # << >> => llm_promise'[i] = llm_promise[i]]_vars

\* the worker has processed two tasks: generateResponse returned for one
\* and threw for the other
C17_Witness ==
  \E i, j \in Items :
    llm_promise[i] = << "value" >> /\ llm_promise[j] = << "exception" >>

\* what a call of stop() can change: the flag, the thread handle, the
\* threads and the validity of the queue
StopVisible == << llm_isRunning, llm_thread, llm_wpc, m_is_valid >>

\* the step is the join of the worker by stop()
Joins == llm_cpc = "stop_join" /\ llm_thread # 0 /\ llm_thread' = 0

\* C18: stop() may be called at any time between calls, started or not,
\* and every call returns; a call that finds the module not running
\* skips the body and returns with the flag, the thread handle, the
\* threads and the queue's validity as they were; a call joins only a
\* thread that is joinable and leaves none to join, so that once stop()
\* has returned no later call joins again.
C18_StopIdempotent ==
  /\ (llm_cpc \in {"stop_notify", "stop_wake", "stop_join", "stop_skip"})
       ~> (llm_cpc = "idle")
  /\ [][(llm_cpc = "idle" /\ ~llm_isRunning /\ llm_cpc' # "idle")
          => (llm_cpc' \in {"stop_skip", "start_assign"})]_vars
  /\ [][(llm_cpc = "stop_skip" \/ llm_cpc' = "stop_skip")
          => UNCHANGED StopVisible]_vars
  /\ [][Joins => (llm_wpc[llm_thread] = "exited" /\ NoWorker')]_vars
  /\ []((llm_cpc \in {"idle", "stop_skip"} /\ ~llm_isRunning)
          => llm_thread = 0)

\* stop() has invalidated the queue and joined the worker, and a further
\* call of stop() has found the flag clear
C18_Witness ==
  /\ llm_cpc = "stop_skip"
  /\ ~m_is_valid
  /\ llm_thread = 0

\* C19: at every moment at most one worker thread of the module is alive,
\* and start() never assigns a new thread to an m_thread that is still
\* joinable (which ends the process in std::terminate).
C19_AtMostOneWorker ==
  /\ Cardinality(Workers) <= 1
  /\ LlmAlive

\* C20: the lifecycle state of the module only moves forward along
\* Created, Initialized, Running, Stopped: no step of initialize, start or
\* stop takes it to an earlier state.
C20_LifecycleMonotonic ==
  [][LifecycleRank(LifecycleState') >= LifecycleRank(LifecycleState)]_vars

\* ------------------------------------------------------------------------
\* hal_camera_grab_frame and hal_camera_release_frame on each backend
\* (modules/hal-c/src/camera.c): one thread grabs and releases frames on
\* an open camera; the device delivers frames when it pleases; time
\* passes in ticks while a call is blocked
\* ------------------------------------------------------------------------
\* the backends camera.c has code for: V4L2 and Media Foundation  (:26-48)
Backends == {"linux", "win32"}

Timeouts == 1..MaxTimeout

\* how long a blocked call is observed: one tick beyond the longest timeout
MaxWait == MaxTimeout + 1

\* the address of a V4L2 buffer mapped by hal_camera_open, and of a block
\* returned by malloc
MmapPtr(i) == << "mmap", i >>
HeapPtr(b) == << "heap", b >>

\* the memory a pointer refers to is mapped or allocated
Readable(ptr, heap) ==
  \/ ptr[1] = "mmap"
  \/ ptr[1] = "heap" /\ ptr[2] \in heap

\* the block the next malloc returns
FreshBlock == g_grabs

\* the longest the blocking call of grab_frame waits without a frame:
\* select() is given tv = timeout_ms (:277-278); ReadSample is called
\* synchronously and is given no timeout (:313)
WaitLimit(backend, timeout) ==
  IF backend = "linux" THEN timeout ELSE MaxWait

\* release_frame: VIDIOC_QBUF of the slot on V4L2 (:371-380);
\* free(frame->data) on Media Foundation (:387)
HeapAfterRelease(backend, ptr, heap) ==
  IF backend = "win32" /\ ptr[1] = "heap" THEN heap \ {ptr[2]} ELSE heap

HalCallUnchanged ==
  UNCHANGED << hal_backend, g_timeout, g_waited, g_grabs >>

\* camera.c is compiled for one backend
HalBuild ==
  /\ hal_backend = "unbuilt"
  /\ \E b \in Backends : hal_backend' = b
  /\ UNCHANGED << g_pc, g_timeout, g_waited, g_status, g_ready, g_heap,
                  g_data, g_released, g_grabs >>

\* the device captures a frame
HalDeviceFrame ==
  /\ hal_backend \in Backends
  /\ ~g_ready
  /\ g_ready' = TRUE
  /\ UNCHANGED << hal_backend, g_pc, g_timeout, g_waited, g_status, g_heap,
                  g_data, g_released, g_grabs >>

\* hal_camera_grab_frame is called with valid arguments and enters
\* select() or ReadSample                                (:262-278, 308-313)
HalGrabCall ==
  /\ hal_backend \in Backends
  /\ g_pc = "idle"
  /\ g_grabs < MaxGrabs
  /\ g_data = NullPtr \/ g_released
  /\ \E t \in Timeouts : g_timeout' = t
  /\ g_waited' = 0
  /\ g_pc' = "blocked"
  /\ g_grabs' = g_grabs + 1
  /\ g_status' = "none"
  /\ g_data' = NullPtr
  /\ g_released' = FALSE
  /\ UNCHANGED << hal_backend, g_ready, g_heap >>

\* a tick passes while the call is blocked
HalTick ==
  /\ g_pc = "blocked"
  /\ g_waited < WaitLimit(hal_backend, g_timeout)
  /\ g_waited' = g_waited + 1
  /\ UNCHANGED << hal_backend, g_pc, g_timeout, g_status, g_ready, g_heap,
                  g_data, g_released, g_grabs >>

\* V4L2: select() returns -1, or 0 when the timeout has expired, or the
\* descriptor is readable and VIDIOC_DQBUF succeeds or fails     (:278-294)
HalGrabReturnLinux ==
  /\ hal_backend = "linux"
  /\ g_pc = "blocked"
  /\ \/ /\ g_status' = "IOError"
        /\ UNCHANGED << g_ready, g_data >>
     \/ /\ ~g_ready
        /\ g_waited = g_timeout
        /\ g_status' = "Timeout"
        /\ UNCHANGED << g_ready, g_data >>
     \/ /\ g_ready
        /\ g_ready' = FALSE
        /\ g_status' = "Ok"
        /\ g_data' = MmapPtr(1)
  /\ g_pc' = "idle"
  /\ UNCHANGED << g_heap, g_released >>
  /\ HalCallUnchanged

\* Media Foundation: ReadSample returns a failure or the end of the
\* stream, or no sample, or a sample that is copied into a block from
\* malloc, unless malloc or the buffer access fails           (:313-346)
HalGrabReturnWin32 ==
  /\ hal_backend = "win32"
  /\ g_pc = "blocked"
  /\ \/ /\ g_status' \in {"IOError", "Error"}
        /\ UNCHANGED << g_ready, g_data, g_heap >>
     \/ /\ g_ready
        /\ g_ready' = FALSE
        /\ \/ /\ g_status' = "Ok"
              /\ g_data' = HeapPtr(FreshBlock)
              /\ g_heap' = g_heap \cup {FreshBlock}
           \/ /\ g_status' \in {"IOError", "Error"}
              /\ UNCHANGED << g_data, g_heap >>
  /\ g_pc' = "idle"
  /\ UNCHANGED g_released
  /\ HalCallUnchanged

\* hal_camera_release_frame on a frame grab_frame has returned   (:356-390)
HalReleaseFrame ==
  /\ g_pc = "idle"
  /\ g_status = "Ok"
  /\ ~g_released
  /\ g_heap' = HeapAfterRelease(hal_backend, g_data, g_heap)
  /\ g_released' = TRUE
  /\ UNCHANGED << g_pc, g_status, g_ready, g_data >>
  /\ HalCallUnchanged

NextHal ==
  \/ HalBuild /\ UNCHANGED notHal
  \/ HalDeviceFrame /\ UNCHANGED notHal
  \/ HalGrabCall /\ UNCHANGED notHal
  \/ HalTick /\ UNCHANGED notHal
  \/ HalGrabReturnLinux /\ UNCHANGED notHal
  \/ HalGrabReturnWin32 /\ UNCHANGED notHal
  \/ HalReleaseFrame /\ UNCHANGED notHal

SpecHal == Init /\ [][NextHal]_vars

\* C21: a call of grab_frame is never blocked for longer than its
\* timeout, on any backend.
C21_GrabBlocksAtMostTimeout ==
  g_pc = "blocked" => g_waited <= g_timeout

\* C22: on the backend that copies each frame into a block from malloc,
\* the block frame->data points to is still allocated after release_frame
\* has returned.
C22_ReleaseKeepsDataValid ==
  (hal_backend = "win32" /\ g_released) => Readable(g_data, g_heap)

\* ------------------------------------------------------------------------
\* Properties of the App: signal handler, exit code, HAL bracket
\* ------------------------------------------------------------------------
\* C23: the only kind of operation handleSignal ever performs is the
\* atomic store to s_isRunning: no stream output, no allocation, no lock.
C23_HandlerOnlyStores == handlerOps \subseteq {"atomic_store"}

\* a startup call (config load, HAL init, module initialize or start) has
\* returned failure
StartupFailed == \E i \in StartupCalls : trace[i][3] = FALSE

\* every startup call was made and succeeded
StartupSucceeded ==
  /\ Results("config_load", 0, TRUE) # {}
  /\ Results("hal_initialize", 0, TRUE) # {}
  /\ \A m \in Modules :
       Results("initialize", m, TRUE) # {} /\ Results("start", m, TRUE) # {}
  /\ ~StartupFailed

\* a call of shutdown() has run to its end: every module stopped, the
\* module list cleared, the HAL shut down, the configuration freed
ShutdownCompleted ==
  /\ Calls("initialize", 1) # {} =>
       \A m \in Modules : Calls("stop_return", m) # {}
  /\ Calls("hal_shutdown", 0) # {}
  /\ Results("config_load", 0, TRUE) # {} => Calls("config_free", 0) # {}
  /\ m_modules = << >>
  /\ ~m_config

\* C24: run() returns failure exactly when a startup call failed; it
\* returns success only when every startup call succeeded, a signal was
\* delivered, the flag is clear and shutdown() has completed; in both
\* cases it returns only after shutdown() has completed.
C24_ExitCode ==
  /\ (exitCode = "failure") <=> (RunReturned /\ StartupFailed)
  /\ (exitCode = "success") <=> (RunReturned /\ StartupSucceeded)
  /\ exitCode = "success" => (sigCount > 0 /\ ~s_isRunning)
  /\ RunReturned => ShutdownCompleted

\* run() has returned success after a signal ended the main loop
C24_Witness ==
  /\ app_pc = "returned"
  /\ exitCode = "success"
  /\ sigCount > 0
  /\ Calls("stop_return", 1) # {}

\* C25: hal_shutdown is called at most once, and only after hal_initialize
\* was called; once the App is destroyed it has been called exactly once.
C25_HalBracket ==
  /\ Cardinality(Calls("hal_shutdown", 0)) <= 1
  /\ \A i \in Calls("hal_shutdown", 0) :
       \E j \in Calls("hal_initialize", 0) : j < i
  /\ app_pc = "destroyed" => Cardinality(Calls("hal_shutdown", 0)) = 1

\* ------------------------------------------------------------------------
\* nms_greedy_neon (modules/perception/src/optim/postprocess_detect_arm.s)
\* Coordinates are small integers, on which the float operations of the
\* routine are exact; iou_threshold is a fraction. The s, d and q
\* registers overlap as on the hardware: q1 = s4..s7 = d2,d3,
\* q2 = s8..s11 = d4,d5, q3 = s12..s15 = d6,d7, q4 = s16..s19 = d8,d9.
\* ------------------------------------------------------------------------
Max(a, b) == IF a >= b THEN a ELSE b
Min(a, b) == IF a <= b THEN a ELSE b

\* struct BoundingBox { x1, y1, x2, y2, score, suppressed }       (:27-34)
Box(x1, y1, x2, y2, score) ==
  [x1 |-> x1, y1 |-> y1, x2 |-> x2, y2 |-> y2, score |-> score,
   suppressed |-> 0]

\* the boxes the callers pass: corners in 0..MaxCoord, x1 <= x2, y1 <= y2
Coords == 0..MaxCoord
Corners ==
  { c \in Coords \X Coords \X Coords \X Coords : c[1] <= c[3] /\ c[2] <= c[4] }

\* scores in descending order, the precondition of the routine     (:9-10)
ScoreAt(n, k) == n - k

BoxLists(n) ==
  { [ k \in 1..n |-> Box(f[k][1], f[k][2], f[k][3], f[k][4], ScoreAt(n, k)) ] :
      f \in [1..n -> Corners] }

\* the thresholds the callers pass: 0, 1/2, 1
ThresholdDen == 2
Thresholds == { << t, ThresholdDen >> : t \in 0..ThresholdDen }

\* the three boxes A, B, C of the documented scenario, scores in tenths,
\* and its threshold 0.5
ScenarioBoxes ==
  << Box(0, 0, 10, 10, 9), Box(1, 1, 11, 11, 8), Box(50, 50, 60, 60, 7) >>
ScenarioThreshold == << 1, 2 >>

\* what q15 may hold on entry: the routine reads it at :128 and never
\* writes it; the caller may have left zero or anything else in it
Q15Lanes == {0, MaxCoord}

\* `vsub.f32 s5, d2[1], d2[0]`, `vsub.f32 s6, d3[1], d3[0]` after
\* `vld1.32 {d2, d3}, [r4]`: s5 and s6 are lanes of q1, which then holds
\* x1, y1 - x1, y2 - x2, y2 of box_i                               (:87-92)
OuterLoad(b) == << b.x1, b.y1 - b.x1, b.y2 - b.x2, b.y2 >>

\* `vcmp.f32 s14, s0` with s14 = s10 / s13, then `ble`: the branch is not
\* taken when the quotient is greater than the threshold; a division by
\* zero gives an infinity of the sign of the dividend         (:149-154)
QuotientGreater(num, den, thr) ==
  IF den > 0 THEN num * thr[2] > thr[1] * den
  ELSE IF den < 0 THEN num * thr[2] < thr[1] * den
  ELSE num > 0

\* one pass of the inner loop body on box_j with the q1 left by the
\* passes before it                                            (:112-158)
InnerBody(q1, b, q15, thr) ==
  LET s8 == b.x1
      s9 == b.y1
      s11 == b.y2
      d6 == << Max(q1[1], s8), Max(q1[2], s9) >>
      d7 == << Min(q1[3], b.x2), Min(q1[4], s11) >>
      s16 == Max(d7[1] - d6[1], q15[1])
      s17 == Max(d7[2] - d6[2], q15[2])
      s10 == s16 * s17
      s5 == s9 - s8
      s6 == s11 - s10
      s12 == s5 * s6
      s13 == (s11 + s12) - s10
  IN IF s10 = 0
       THEN [q1 |-> q1, suppress |-> FALSE, divides |-> FALSE, by |-> 1]
       ELSE [q1 |-> << q1[1], s5, s6, q1[4] >>,
             suppress |-> QuotientGreater(s10, s13, thr),
             divides |-> TRUE, by |-> s13]

\* `mov r7, #1; str r7, [r5, #20]`                             (:156-158)
SuppressStore_score(b) == [b EXCEPT !.score = 1]

SuppressStore(b) == [b EXCEPT !.suppressed = 1]

NumBoxes == Len(nms_boxes)

\* the caller's list of survivors: the boxes with suppressed == 0, in
\* their order
Unsuppressed(b) == b.suppressed = 0
Survivors(boxes) == SelectSeq(boxes, Unsuppressed)

\* prologue and initial setup: `cmp r1, #1; ble .L_exit_nms`     (:61-70)
NmsEnter(boxes, thr, q15) ==
  /\ nms_boxes' = boxes
  /\ nms_thr' = thr
  /\ nms_q15' = q15
  /\ nms_i' = 1
  /\ nms_j' = 0
  /\ nms_q1' = << 0, 0, 0, 0 >>
  /\ nms_pc' = IF Len(boxes) <= 1 THEN "done" ELSE "outer"

\* the first call, on a sorted list of detections
NmsCall ==
  /\ nms_pc = "idle"
  /\ \E boxes \in UNION { BoxLists(n) : n \in 0..MaxBoxes } \cup {ScenarioBoxes} :
     \E thr \in Thresholds :
     \E q15 \in Q15Lanes \X Q15Lanes :
       NmsEnter(boxes, thr, q15)
  /\ nms_pass' = 1

\* the second call, on the survivors of the first, same threshold
NmsCallAgain ==
  /\ nms_pc = "done"
  /\ nms_pass = 1
  /\ \E q15 \in Q15Lanes \X Q15Lanes :
       NmsEnter(Survivors(nms_boxes), nms_thr, q15)
  /\ nms_pass' = 2

\* .L_outer_loop_i up to the setup of the inner loop             (:72-96)
NmsOuter ==
  /\ nms_pc = "outer"
  /\ IF nms_i >= NumBoxes
       THEN nms_pc' = "done" /\ UNCHANGED << nms_i, nms_j, nms_q1 >>
       ELSE IF nms_boxes[nms_i].suppressed # 0
         THEN nms_i' = nms_i + 1 /\ UNCHANGED << nms_pc, nms_j, nms_q1 >>
         ELSE /\ nms_q1' = OuterLoad(nms_boxes[nms_i])
              /\ nms_j' = nms_i + 1
              /\ nms_pc' = "inner"
              /\ UNCHANGED nms_i
  /\ UNCHANGED << nms_boxes, nms_thr, nms_q15, nms_pass >>

\* .L_inner_loop_j: one pass of the inner loop, or its exit to
\* .L_continue_outer                                             (:98-166)
NmsInner ==
  /\ nms_pc = "inner"
  /\ IF nms_j > NumBoxes
       THEN /\ nms_i' = nms_i + 1
            /\ nms_pc' = "outer"
            /\ UNCHANGED << nms_j, nms_q1, nms_boxes >>
       ELSE /\ nms_j' = nms_j + 1
            /\ UNCHANGED << nms_i, nms_pc >>
            /\ IF nms_boxes[nms_j].suppressed # 0
                 THEN UNCHANGED << nms_q1, nms_boxes >>
                 ELSE LET r == InnerBody(nms_q1, nms_boxes[nms_j], nms_q15,
                                         nms_thr)
                      IN /\ nms_q1' = r.q1
                         /\ nms_boxes' =
                              IF r.suppress
                                THEN [nms_boxes EXCEPT
                                        ![nms_j] = SuppressStore(@)]
                                ELSE nms_boxes
  /\ UNCHANGED << nms_thr, nms_q15, nms_pass >>

NextNms ==
  \/ NmsCall /\ UNCHANGED notNms
  \/ NmsCallAgain /\ UNCHANGED notNms
  \/ NmsOuter /\ UNCHANGED notNms
  \/ NmsInner /\ UNCHANGED notNms

SpecNms == Init /\ [][NextNms]_vars

\* ------------------------------------------------------------------------
\* Properties of nms_greedy_neon
\* ------------------------------------------------------------------------
\* the suppressed flags of the array, in order
Flags(boxes) == [ k \in 1..Len(boxes) |-> boxes[k].suppressed ]

\* the array without its flags
Geometry(boxes) == [ k \in 1..Len(boxes) |-> [boxes[k] EXCEPT !.suppressed = 0] ]

\* the first call has returned
FirstPassDone == nms_pc = "done" /\ nms_pass = 1

\* q15 held zero on entry, the value the clamp at :128 is meant to use
CleanQ15 == nms_q15 = << 0, 0 >>

\* C26: on the boxes A, B, C of the scenario with threshold 0.5, the call
\* returns with B suppressed and A and C not (stated for the most
\* favourable content of q15, zero).
C26_ScenarioResult ==
  (/\ FirstPassDone
   /\ CleanQ15
   /\ Geometry(nms_boxes) = ScenarioBoxes
   /\ nms_thr = ScenarioThreshold)
    => Flags(nms_boxes) = << 0, 1, 0 >>

\* C27: a second call with the same threshold on the survivors of the
\* first suppresses no box.
C27_Idempotent ==
  nms_pass = 2 => \A k \in 1..NumBoxes : nms_boxes[k].suppressed = 0

\* the step is taken inside nms_greedy_neon
InsideNms == nms_pc \in {"outer", "inner"}

\* scores strictly descending along the array
ScoreSorted(boxes) ==
  \A k, l \in 1..Len(boxes) : k < l => boxes[k].score > boxes[l].score

IoUGreater(a, b, thr) ==
  LET w == Max(0, Min(a.x2, b.x2) - Max(a.x1, b.x1))
      h == Max(0, Min(a.y2, b.y2) - Max(a.y1, b.y1))
      inter == w * h
      union == ((a.x2 - a.x1) * (a.y2 - a.y1)
                + (b.x2 - b.x1) * (b.y2 - b.y1)) - inter
  IN union > 0 /\ inter * thr[2] > thr[1] * union

\* the step sets the suppressed flag of box_j
Suppresses ==
  /\ nms_pc = "inner"
  /\ nms_j <= NumBoxes
  /\ nms_boxes[nms_j].suppressed = 0
  /\ nms_boxes'[nms_j].suppressed = 1

\* C29: box_j is suppressed by box_i only if their intersection over
\* union exceeds the threshold (stated for the most favourable content of
\* q15, zero); in particular boxes that do not overlap, or whose union is
\* empty, do not suppress each other.
C29_SuppressOnlyAboveThreshold ==
  [][(Suppresses /\ CleanQ15)
       => IoUGreater(nms_boxes[nms_i], nms_boxes[nms_j], nms_thr)]_vars

\* C37: after a pass no two unsuppressed boxes i < j have an intersection
\* over union above the threshold, and every suppressed box has one above
\* the threshold with an unsuppressed box before it in the array (stated
\* for the most favourable content of q15, zero).
C37_PassPostcondition ==
  (FirstPassDone /\ CleanQ15) =>
    /\ \A k, l \in 1..NumBoxes :
         (k < l /\ Unsuppressed(nms_boxes[k]) /\ Unsuppressed(nms_boxes[l]))
           => ~IoUGreater(nms_boxes[k], nms_boxes[l], nms_thr)
    /\ \A l \in 1..NumBoxes :
         ~Unsuppressed(nms_boxes[l])
           => \E k \in 1..(l - 1) :
                /\ Unsuppressed(nms_boxes[k])
                /\ IoUGreater(nms_boxes[k], nms_boxes[l], nms_thr)

\* ------------------------------------------------------------------------
\* preprocess_image_cpp (Preprocessor.cpp): bilinear resize of an RGB24
\* frame, normalisation by 255 and conversion to planar CHW
\*
\* float values are exact fractions << numerator, denominator >> in lowest
\* terms with a positive denominator.
\* ------------------------------------------------------------------------

RECURSIVE Gcd(_, _)
Gcd(a, b) == IF b = 0 THEN a ELSE Gcd(b, a % b)

Abs(a) == IF a < 0 THEN 0 - a ELSE a

\* the fraction n/d (d > 0) in lowest terms
Rat(n, d) ==
  LET g == Gcd(Abs(n), d) IN << n \div g, d \div g >>

\* static_cast<float>(i), and the promotion of a uint8_t or int operand
RatOf(i) == << i, 1 >>

RatAdd(a, b) == Rat(a[1] * b[2] + b[1] * a[2], a[2] * b[2])
RatSub(a, b) == Rat(a[1] * b[2] - b[1] * a[2], a[2] * b[2])
RatMul(a, b) == Rat(a[1] * b[1], a[2] * b[2])

\* a / b for b > 0
RatDiv(a, b) == Rat(a[1] * b[2], a[2] * b[1])

\* static_cast<int>(std::floor(a))
RatFloor(a) == a[1] \div a[2]

Half == << 1, 2 >>
One == << 1, 1 >>

\* the colours a source pixel can have, as (R, G, B) bytes
Colours == { << 0, 0, 0 >>, << 255, 128, 1 >> }

Channels == 3

\* the interleaved HWC bytes of an image whose pixel k (row-major) has
\* colour pix[k]
Interleave(pix, n) ==
  [ k \in 1..(Channels * n) |->
      pix[(k - 1) \div Channels][((k - 1) % Channels) + 1] ]

\* the RGB24 frames of up to MaxSide by MaxSide pixels
Frames ==
  UNION { { Frame(w, h, Interleave(pix, w * h)) :
              pix \in [ 0..(w * h - 1) -> Colours ] } :
          w \in 1..MaxSide, h \in 1..MaxSide }

\* frames the validation turns away: a null data pointer, a zero width, a
\* zero height, a format other than RGB24
BadFrames ==
  { Frame(1, 1, << >>),
    Frame(0, 1, << 0, 0, 0 >>),
    Frame(1, 0, << 0, 0, 0 >>),
    [ Frame(1, 1, << 0, 0, 0 >>) EXCEPT !.format = "YUYV" ] }

TargetSizes == 0..MaxTarget

\* what the caller's vector holds before the call
PriorTensors == { << >>, << One >> }

\* `if (!input_frame.data || width == 0 || height == 0) return;`
\* `if (format != HAL_PIXEL_FORMAT_RGB24) return;`
\* `if (target_width <= 0 || target_height <= 0) return;`
Rejects(f, tw, th) ==
  \/ f.data = << >> \/ f.width = 0 \/ f.height = 0
  \/ f.format # "RGB24"
  \/ tw <= 0 \/ th <= 0

\* output_tensor.resize(n): the first n elements kept, new ones 0.0f
Resize(vec, n) ==
  [ k \in 1..n |-> IF k <= Len(vec) THEN vec[k] ELSE RatOf(0) ]

\* src_data[off]
SrcByte(off) == input_frame.data[off + 1]

\* (out + 0.5f) * ratio - 0.5f, with ratio = float(src) / float(target)
SrcCoord(out, src, target) ==
  RatSub(RatMul(RatAdd(RatOf(out), Half),
                RatDiv(RatOf(src), RatOf(target))),
         Half)

\* a * (1.0f - t) + b * t
Lerp_nocomplement(a, b, t) ==
  RatAdd(RatMul(a, One), RatMul(b, t))

Lerp(a, b, t) ==
  RatAdd(RatMul(a, RatSub(One, t)), RatMul(b, t))

\* std::max(0, v)
ClampLow_none(v) == v

ClampLow(v) == Max(0, v)

\* std::min(dim - 1, v)
ClampHigh(dim, v) == Min(dim - 1, v)

\* the coordinates of the four source pixels read for destination pixel
\* (x, y): floor of the mapped coordinate, clamped below, and its right /
\* lower neighbour, clamped above
Neighbours(x, y) ==
  LET x_in == ClampLow(RatFloor(SrcCoord(x, input_frame.width,
                                         target_width)))
      y_in == ClampLow(RatFloor(SrcCoord(y, input_frame.height,
                                         target_height)))
  IN [ x_in |-> x_in, y_in |-> y_in,
       x2_in |-> ClampHigh(input_frame.width, x_in + 1),
       y2_in |-> ClampHigh(input_frame.height, y_in + 1) ]

\* the interleaved layout, (y * target_width + x) * 3 + c
DstIdx_interleaved(x, y, c) ==
  (y * target_width + x) * Channels + c

\* c * (target_height * target_width) + y * target_width + x
DstIdx(x, y, c) ==
  c * (target_height * target_width) + y * target_width + x

\* the value stored for channel c (from 0) of destination pixel (x, y)
PixelValue(x, y, c) ==
  LET src_x_float == SrcCoord(x, input_frame.width, target_width)
      src_y_float == SrcCoord(y, input_frame.height, target_height)
      x_floor == RatFloor(src_x_float)
      y_floor == RatFloor(src_y_float)
      x_diff == RatSub(src_x_float, RatOf(x_floor))
      y_diff == RatSub(src_y_float, RatOf(y_floor))
      n == Neighbours(x, y)
      x_in == n.x_in
      y_in == n.y_in
      x2_in == n.x2_in
      y2_in == n.y2_in
      src_stride == input_frame.width * Channels
      p1 == (y_in * src_stride) + (x_in * Channels)
      p2 == (y_in * src_stride) + (x2_in * Channels)
      p3 == (y2_in * src_stride) + (x_in * Channels)
      p4 == (y2_in * src_stride) + (x2_in * Channels)
      top_interp == Lerp(RatOf(SrcByte(p1 + c)), RatOf(SrcByte(p2 + c)),
                         x_diff)
      bottom_interp == Lerp(RatOf(SrcByte(p3 + c)), RatOf(SrcByte(p4 + c)),
                            x_diff)
      final_value == Lerp(top_interp, bottom_interp, y_diff)
  IN RatDiv(final_value, RatOf(255))

\* the call: validation, resize of the output vector, loop set-up
PreCall ==
  /\ pre_pc = "idle"
  /\ \E f \in Frames \cup BadFrames, tw \in TargetSizes, th \in TargetSizes,
        prior \in PriorTensors :
       /\ input_frame' = f
       /\ target_width' = tw
       /\ target_height' = th
       /\ IF Rejects(f, tw, th)
            THEN /\ pre_pc' = "rejected"
                 /\ output_tensor' = prior
                 /\ writes' = [ k \in 1..Len(prior) |-> 0 ]
            ELSE /\ pre_pc' = "loop"
                 /\ output_tensor' = Resize(prior, Channels * tw * th)
                 /\ writes' = [ k \in 1..(Channels * tw * th) |-> 0 ]
  /\ x_out' = 0
  /\ y_out' = 0

\* the channels whose store in this pass of the loop body goes to element
\* k (from 1) of output_tensor
StoresTo(k) ==
  { c \in 0..(Channels - 1) : k = DstIdx(x_out, y_out, c) + 1 }

\* one pass of the body of the x_out loop: the three channels of one
\* destination pixel, then the loop increments
PrePixel ==
  /\ pre_pc = "loop"
  /\ y_out < target_height
  /\ output_tensor' =
       [ k \in 1..Len(output_tensor) |->
           IF StoresTo(k) # {}
             THEN PixelValue(x_out, y_out,
                             CHOOSE c \in StoresTo(k) :
                               \A d \in StoresTo(k) : d <= c)
             ELSE output_tensor[k] ]
  /\ writes' = [ k \in 1..Len(writes) |->
                   writes[k] + Cardinality(StoresTo(k)) ]
  /\ IF x_out + 1 < target_width
       THEN x_out' = x_out + 1 /\ y_out' = y_out
       ELSE x_out' = 0 /\ y_out' = y_out + 1
  /\ UNCHANGED << pre_pc, input_frame, target_width, target_height >>

\* the y_out loop ends and the function returns
PreReturn ==
  /\ pre_pc = "loop"
  /\ y_out >= target_height
  /\ pre_pc' = "done"
  /\ UNCHANGED << input_frame, output_tensor, target_width, target_height,
                  x_out, y_out, writes >>

NextPre ==
  \/ PreCall /\ UNCHANGED notPre
  \/ PrePixel /\ UNCHANGED notPre
  \/ PreReturn /\ UNCHANGED notPre

SpecPre == Init /\ [][NextPre]_vars

\* ------------------------------------------------------------------------
\* Properties of preprocess_image_cpp
\* ------------------------------------------------------------------------

\* every pixel of the frame has the colour col
Uniform(f, col) ==
  \A k \in 1..Len(f.data) : f.data[k] = col[((k - 1) % Channels) + 1]

\* C30: when the call has returned for a source frame whose pixels all
\* have one colour, the tensor has 3 * target_width * target_height
\* elements and every element of channel c is colour[c] / 255.
C30_UniformStaysUniform ==
  \A col \in Colours :
    (pre_pc = "done" /\ Uniform(input_frame, col)) =>
      /\ Len(output_tensor) = Channels * target_width * target_height
      /\ \A c \in 0..(Channels - 1) :
           \A x \in 0..(target_width - 1), y \in 0..(target_height - 1) :
             output_tensor[DstIdx(x, y, c) + 1] = Rat(col[c + 1], 255)

\* a uniform frame of the coloured pixel, 2 by 2, has been enlarged to
\* 3 by 3, where destination pixels fall between source pixels and
\* outside the source's pixel centres
C30_Witness ==
  /\ pre_pc = "done"
  /\ input_frame.width = 2 /\ input_frame.height = 2
  /\ Uniform(input_frame, << 255, 128, 1 >>)
  /\ target_width = 3 /\ target_height = 3

\* the target has the size of the source
SameSize ==
  target_width = input_frame.width /\ target_height = input_frame.height

\* C31: when the call has returned for a target of the size of the source,
\* out[c*H*W + y*W + x] = src[(y*W + x)*3 + c] / 255 for every pixel and
\* channel.
C31_SameSizeIsIdentity ==
  (pre_pc = "done" /\ SameSize) =>
    \A c \in 0..(Channels - 1) :
      \A x \in 0..(target_width - 1), y \in 0..(target_height - 1) :
        output_tensor[c * target_height * target_width
                      + y * target_width + x + 1]
          = Rat(SrcByte((y * target_width + x) * Channels + c), 255)

\* a 2 by 2 frame with pixels of both colours has been converted to a
\* 2 by 2 tensor
C31_Witness ==
  /\ pre_pc = "done"
  /\ SameSize
  /\ input_frame.width = 2 /\ input_frame.height = 2
  /\ \A col \in Colours : ~Uniform(input_frame, col)

\* the four source pixels of destination pixel (x, y) lie in the frame
InFrame(x, y) ==
  LET n == Neighbours(x, y)
  IN /\ {n.x_in, n.x2_in} \subseteq 0..(input_frame.width - 1)
     /\ {n.y_in, n.y2_in} \subseteq 0..(input_frame.height - 1)

\* C39: in a call that passed the validation, the four neighbour
\* coordinates of the destination pixel about to be computed lie in
\* [0, src_w-1] x [0, src_h-1]; no element of the output is stored to more
\* than once, and when the call returns each of the 3*W*H elements has
\* been stored to exactly once.
C39_ReadsInsideWritesOnce ==
  /\ (pre_pc = "loop" /\ y_out < target_height) => InFrame(x_out, y_out)
  /\ pre_pc \in {"loop", "done"} =>
       /\ Len(writes) = Channels * target_width * target_height
       /\ \A k \in 1..Len(writes) : writes[k] <= 1
  /\ pre_pc = "done" => \A k \in 1..Len(writes) : writes[k] = 1

\* a call has returned after enlarging a frame in both directions, where
\* the mapped coordinate of the first column and row is negative and that
\* of the last ones has no right or lower neighbour
C39_Witness ==
  /\ pre_pc = "done"
  /\ input_frame.width < target_width /\ input_frame.height < target_height
  /\ Len(writes) > 0
  /\ \A k \in 1..Len(writes) : writes[k] = 1

\* ------------------------------------------------------------------------
\* Audio HAL: hal_audio_capture_chunk, hal_audio_playback_chunk and
\* hal_set_audio_filter on the ALSA and the winmm backend
\* ------------------------------------------------------------------------

AudioBackends == {"linux", "win32"}

\* the device handle a caller passes: NULL, or a device opened with the
\* direction named
DeviceArgs == {"null", "HAL_AUDIO_CAPTURE", "HAL_AUDIO_PLAYBACK"}

SampleCounts == 0..MaxSamples

\* dev->bytes_per_sample = sizeof(int16_t)
BytesPerSample == 2

\* dev->num_channels of the devices opened here
NumChannels == 1

\* the buffer of a chunk the caller hands to playback
CallerPtr == << "caller", 0 >>

\* `if (!device || !chunk || device->direction != direction)`
InvalidArg(dev, hasChunk, direction) ==
  dev = "null" \/ ~hasChunk \/ dev # direction

\* the block the next malloc returns
AudioBlock == au_calls + 1

\* what the call leaves when it returns: status, chunk, heap and the
\* observations
AudioReturn(status, chunk, heap, moved, recovers, failed) ==
  /\ au_pc' = "returned"
  /\ au_status' = status
  /\ au_chunk' = chunk
  /\ au_heap' = heap
  /\ au_moved' = moved
  /\ au_recovers' = recovers
  /\ au_failed' = failed

\* the filter hook runs over the captured samples when one is registered
\* and chunk->data is not NULL
Filtered(data) == g_audio_filter_func /\ data # NullPtr

\* chunk->num_samples = frames_read
SamplesRead(frames_read, n) == frames_read

\* what a playback call returns after snd_pcm_writei wrote frames_written
\* of n frames: a short write is logged and the call goes on to return
\* HAL_STATUS_OK
AfterWrite(frames_written, n) == "HAL_STATUS_OK"

\* audio.c is compiled for one platform
AudioBuild ==
  /\ au_backend = "unbuilt"
  /\ au_backend' \in AudioBackends
  /\ UNCHANGED << au_pc, au_fn, au_req, au_chunk, au_status, au_heap, au_hdr,
                  g_audio_filter_func, au_moved, au_recovers, au_failed,
                  au_calls >>

\* hal_set_audio_filter(filter_func) with a function
SetAudioFilter ==
  /\ au_backend # "unbuilt"
  /\ au_pc \in {"idle", "returned"}
  /\ ~g_audio_filter_func
  /\ g_audio_filter_func' = TRUE
  /\ UNCHANGED << au_backend, au_pc, au_fn, au_req, au_chunk, au_status,
                  au_heap, au_hdr, au_moved, au_recovers, au_failed,
                  au_calls >>

\* a call can be made
CanCall == au_pc \in {"idle", "returned"} /\ au_calls < MaxAudioCalls

\* what every call sets on entry
AudioEnter(fn, n) ==
  /\ au_fn' = fn
  /\ au_req' = n
  /\ au_calls' = au_calls + 1
  /\ UNCHANGED << au_backend, g_audio_filter_func >>

\* hal_audio_capture_chunk on ALSA: validation, malloc, the blocking
\* snd_pcm_readi returning frames_read (negative on error), recovery or
\* the filter, return
CaptureChunkLinux ==
  /\ au_backend = "linux"
  /\ CanCall
  /\ \E dev \in DeviceArgs, hasChunk \in BOOLEAN, n \in SampleCounts,
        mallocOk \in BOOLEAN :
       LET size_bytes == n * NumChannels * BytesPerSample
           data == HeapPtr(AudioBlock)
       IN /\ AudioEnter("capture", n)
          /\ IF InvalidArg(dev, hasChunk, "HAL_AUDIO_CAPTURE")
               THEN AudioReturn("HAL_STATUS_INVALID_ARG", au_chunk, au_heap,
                                0, 0, FALSE)
               ELSE IF ~mallocOk
                 THEN AudioReturn("HAL_STATUS_ERROR",
                                  Chunk(NullPtr, au_chunk.num_samples,
                                        size_bytes, FALSE),
                                  au_heap, 0, 0, FALSE)
                 ELSE \E frames_read \in (0 - 1)..n :
                        IF frames_read < 0
                          THEN AudioReturn("HAL_STATUS_IO_ERROR",
                                           Chunk(NullPtr, 0, size_bytes,
                                                 FALSE),
                                           au_heap, 0, 1, TRUE)
                          ELSE AudioReturn("HAL_STATUS_OK",
                                           Chunk(data,
                                                 SamplesRead(frames_read, n),
                                                 size_bytes, Filtered(data)),
                                           au_heap \cup {AudioBlock},
                                           frames_read, 0, FALSE)
  /\ UNCHANGED au_hdr

\* hal_audio_capture_chunk on winmm up to the polling loop: validation,
\* malloc, waveInPrepareHeader / waveInAddBuffer / waveInStart, whose
\* results are not looked at
CaptureChunkWin32 ==
  /\ au_backend = "win32"
  /\ CanCall
  /\ \E dev \in DeviceArgs, hasChunk \in BOOLEAN, n \in SampleCounts,
        mallocOk \in BOOLEAN, accepted \in BOOLEAN :
       LET size_bytes == n * NumChannels * BytesPerSample
       IN /\ AudioEnter("capture", n)
          /\ IF InvalidArg(dev, hasChunk, "HAL_AUDIO_CAPTURE")
               THEN /\ AudioReturn("HAL_STATUS_INVALID_ARG", au_chunk,
                                   au_heap, 0, 0, FALSE)
                    /\ au_hdr' = "none"
               ELSE IF ~mallocOk
                 THEN /\ AudioReturn("HAL_STATUS_ERROR",
                                     Chunk(NullPtr, au_chunk.num_samples,
                                           size_bytes, FALSE),
                                     au_heap, 0, 0, FALSE)
                      /\ au_hdr' = "none"
                 ELSE /\ au_pc' = "polling"
                      /\ au_chunk' = Chunk(HeapPtr(AudioBlock), 0, size_bytes,
                                           FALSE)
                      /\ au_heap' = au_heap \cup {AudioBlock}
                      /\ au_hdr' = IF accepted THEN "queued" ELSE "rejected"
                      /\ au_failed' = ~accepted
                      /\ au_moved' = 0
                      /\ au_recovers' = 0
                      /\ UNCHANGED au_status

\* the driver finishes with a queued header and sets WHDR_DONE
Win32HeaderDone ==
  /\ au_pc = "polling"
  /\ au_hdr = "queued"
  /\ au_hdr' = "done"
  /\ au_moved' = au_req
  /\ UNCHANGED << au_backend, au_pc, au_fn, au_req, au_chunk, au_status,
                  au_heap, g_audio_filter_func, au_recovers, au_failed,
                  au_calls >>

\* the polling loop of either function sees WHDR_DONE: unprepare, (for
\* capture: num_samples, the filter), return HAL_STATUS_OK
Win32Return ==
  /\ au_pc = "polling"
  /\ au_hdr = "done"
  /\ AudioReturn("HAL_STATUS_OK",
                 IF au_fn = "capture"
                   THEN Chunk(au_chunk.data, au_req, au_chunk.size_bytes,
                              Filtered(au_chunk.data))
                   ELSE au_chunk,
                 au_heap, au_moved, au_recovers, au_failed)
  /\ UNCHANGED << au_backend, au_fn, au_req, au_hdr, g_audio_filter_func,
                  au_calls >>

\* hal_audio_playback_chunk on ALSA: validation, the blocking
\* snd_pcm_writei returning frames_written (negative on error), recovery
\* or the short-write message, return
PlaybackChunkLinux ==
  /\ au_backend = "linux"
  /\ CanCall
  /\ \E dev \in DeviceArgs, hasChunk \in BOOLEAN, n \in SampleCounts :
       LET chunk == Chunk(CallerPtr, n, n * NumChannels * BytesPerSample,
                          FALSE)
       IN /\ AudioEnter("playback", n)
          /\ IF InvalidArg(dev, hasChunk, "HAL_AUDIO_PLAYBACK")
               THEN AudioReturn("HAL_STATUS_INVALID_ARG", chunk, au_heap,
                                0, 0, FALSE)
               ELSE \E frames_written \in (0 - 1)..n :
                      IF frames_written < 0
                        THEN AudioReturn("HAL_STATUS_IO_ERROR", chunk,
                                         au_heap, 0, 1, TRUE)
                        ELSE AudioReturn(AfterWrite(frames_written, n),
                                         chunk, au_heap, frames_written, 0,
                                         FALSE)
  /\ UNCHANGED au_hdr

\* hal_audio_playback_chunk on winmm up to the polling loop: validation,
\* waveOutPrepareHeader / waveOutWrite, whose results are not looked at
PlaybackChunkWin32 ==
  /\ au_backend = "win32"
  /\ CanCall
  /\ \E dev \in DeviceArgs, hasChunk \in BOOLEAN, n \in SampleCounts,
        accepted \in BOOLEAN :
       LET chunk == Chunk(CallerPtr, n, n * NumChannels * BytesPerSample,
                          FALSE)
       IN /\ AudioEnter("playback", n)
          /\ au_chunk' = chunk
          /\ IF InvalidArg(dev, hasChunk, "HAL_AUDIO_PLAYBACK")
               THEN /\ au_pc' = "returned"
                    /\ au_status' = "HAL_STATUS_INVALID_ARG"
                    /\ au_hdr' = "none"
                    /\ au_failed' = FALSE
               ELSE /\ au_pc' = "polling"
                    /\ au_hdr' = IF accepted THEN "queued" ELSE "rejected"
                    /\ au_failed' = ~accepted
                    /\ UNCHANGED au_status
          /\ au_moved' = 0
          /\ au_recovers' = 0
          /\ UNCHANGED au_heap

NextAudio ==
  \/ AudioBuild /\ UNCHANGED notAudio
  \/ SetAudioFilter /\ UNCHANGED notAudio
  \/ CaptureChunkLinux /\ UNCHANGED notAudio
  \/ CaptureChunkWin32 /\ UNCHANGED notAudio
  \/ Win32HeaderDone /\ UNCHANGED notAudio
  \/ Win32Return /\ UNCHANGED notAudio
  \/ PlaybackChunkLinux /\ UNCHANGED notAudio
  \/ PlaybackChunkWin32 /\ UNCHANGED notAudio

SpecAudio == Init /\ [][NextAudio]_vars

\* ------------------------------------------------------------------------
\* Properties of the audio HAL
\* ------------------------------------------------------------------------

\* the last call was of fn and has returned status
AudioReturned(fn, status) ==
  au_pc = "returned" /\ au_fn = fn /\ au_status = status

\* C32: when capture_chunk has returned HAL_STATUS_OK, chunk.num_samples
\* is the number of samples asked for and chunk.data is an allocated
\* buffer.
C32_CaptureOkIsComplete ==
  AudioReturned("capture", "HAL_STATUS_OK") =>
    /\ au_chunk.num_samples = au_req
    /\ au_chunk.data # NullPtr
    /\ Readable(au_chunk.data, au_heap)

\* C33: when playback_chunk has returned HAL_STATUS_OK, the device has
\* taken all chunk.num_samples samples.
C33_PlaybackOkIsComplete ==
  AudioReturned("playback", "HAL_STATUS_OK") => au_moved = au_chunk.num_samples

\* C34: once a device read or write of a call has failed, the call has
\* made exactly one recovery call and returned HAL_STATUS_IO_ERROR; after
\* a capture the chunk's buffer is freed and chunk.data is NULL.
C34_FailureRecoversOnce ==
  au_failed =>
    /\ au_pc = "returned"
    /\ au_status = "HAL_STATUS_IO_ERROR"
    /\ au_recovers = 1
    /\ au_fn = "capture" =>
         (au_chunk.data = NullPtr /\ AudioBlock - 1 \notin au_heap)

\* ------------------------------------------------------------------------
\* hal_camera_open (camera.c) on the V4L2 and the Media Foundation backend
\* ------------------------------------------------------------------------

\* the call returns status with the resources in held still acquired
OpenReturn(status, held) ==
  /\ o_pc' = "returned"
  /\ o_status' = status
  /\ o_held' = held

\* `*out_camera = dev; return HAL_STATUS_OK;`
OpenReturnOk(held) ==
  /\ OpenReturn("HAL_STATUS_OK", held)
  /\ o_out' = DevPtr

\* the call with its arguments, up to the platform-specific part:
\* `if (!out_camera) return INVALID_ARG;`, calloc of the handle
OpenCall ==
  /\ o_pc = "idle"
  /\ \E backend \in Backends, hasOut \in BOOLEAN, callocOk \in BOOLEAN,
        prior \in {NullPtr, StalePtr} :
       /\ o_backend' = backend
       /\ o_hasOut' = hasOut
       /\ o_out' = IF hasOut THEN prior ELSE NullPtr
       /\ IF ~hasOut
            THEN OpenReturn("HAL_STATUS_INVALID_ARG", {})
            ELSE IF ~callocOk
              THEN OpenReturn("HAL_STATUS_ERROR", {})
              ELSE /\ o_pc' = "open"
                   /\ o_held' = {Res("dev", 0)}
                   /\ UNCHANGED o_status
  /\ UNCHANGED << o_n, o_i >>

\* open("/dev/videoN"): on failure free(dev), DEVICE_NOT_FOUND
OpenDevice ==
  /\ o_backend = "linux"
  /\ o_pc = "open"
  /\ \E ok \in BOOLEAN :
       IF ok
         THEN /\ o_pc' = "s_fmt"
              /\ o_held' = o_held \cup {Res("fd", 0)}
              /\ UNCHANGED o_status
         ELSE OpenReturn("HAL_STATUS_DEVICE_NOT_FOUND",
                         o_held \ {Res("dev", 0)})
  /\ UNCHANGED << o_backend, o_hasOut, o_out, o_n, o_i >>

\* ioctl(VIDIOC_S_FMT): on failure close(fd), free(dev), NOT_SUPPORTED
OpenSetFormat ==
  /\ o_pc = "s_fmt"
  /\ \E ok \in BOOLEAN :
       IF ok
         THEN /\ o_pc' = "reqbufs"
              /\ UNCHANGED << o_held, o_status >>
         ELSE OpenReturn("HAL_STATUS_NOT_SUPPORTED",
                         o_held \ {Res("fd", 0), Res("dev", 0)})
  /\ UNCHANGED << o_backend, o_hasOut, o_out, o_n, o_i >>

\* ioctl(VIDIOC_REQBUFS): on failure close(fd), free(dev), ERROR; on
\* success n_buffers = req.count as the driver granted it, and the calloc
\* of the buffer table, whose result is not looked at
OpenRequestBuffers ==
  /\ o_pc = "reqbufs"
  /\ \E ok \in BOOLEAN, count \in 1..V4L2_BUFFER_COUNT, tableOk \in BOOLEAN :
       IF ok
         THEN /\ o_pc' = "map"
              /\ o_n' = count
              /\ o_held' = IF tableOk THEN o_held \cup {Res("table", 0)}
                           ELSE o_held
              /\ UNCHANGED o_status
         ELSE /\ OpenReturn("HAL_STATUS_ERROR",
                            o_held \ {Res("fd", 0), Res("dev", 0)})
              /\ UNCHANGED o_n
  /\ o_i' = 0
  /\ UNCHANGED << o_backend, o_hasOut, o_out >>

\* one pass of the mapping loop: VIDIOC_QUERYBUF and mmap of buffer i,
\* each returning HAL_STATUS_ERROR at once when it fails; the store to
\* dev->buffers[i] goes through a null pointer when the table's calloc
\* failed
OpenMapBuffer ==
  /\ o_pc = "map"
  /\ o_i < o_n
  /\ \E queryOk \in BOOLEAN, mmapOk \in BOOLEAN :
       IF ~queryOk
         THEN /\ OpenReturn("HAL_STATUS_ERROR", o_held)
              /\ UNCHANGED o_i
         ELSE IF Res("table", 0) \notin o_held
           THEN /\ o_pc' = "crashed"
                /\ UNCHANGED << o_status, o_held, o_i >>
           ELSE IF ~mmapOk
             THEN /\ OpenReturn("HAL_STATUS_ERROR", o_held)
                  /\ UNCHANGED o_i
             ELSE /\ o_held' = o_held \cup {Res("map", o_i)}
                  /\ o_i' = o_i + 1
                  /\ UNCHANGED << o_pc, o_status >>
  /\ UNCHANGED << o_backend, o_hasOut, o_out, o_n >>

\* the mapping loop ends: `*out_camera = dev; return HAL_STATUS_OK;`
OpenLinuxDone ==
  /\ o_pc = "map"
  /\ o_i >= o_n
  /\ OpenReturnOk(o_held)
  /\ UNCHANGED << o_backend, o_hasOut, o_n, o_i >>

\* the Media Foundation part: the chain of calls guarded by
\* SUCCEEDED(hr), failing at `failAt` or not at all; the source reader
\* exists once MFCreateSourceReaderFromActivate has succeeded; on
\* FAILED(hr) free(dev), DEVICE_NOT_FOUND
OpenWin32 ==
  /\ o_backend = "win32"
  /\ o_pc = "open"
  /\ \E failAt \in {"none", "enumerate", "reader", "media_type"} :
       LET reader == IF failAt \in {"none", "media_type"}
                       THEN {Res("reader", 0)} ELSE {}
       IN IF failAt = "none"
            THEN OpenReturnOk(o_held \cup reader)
            ELSE /\ OpenReturn("HAL_STATUS_DEVICE_NOT_FOUND",
                               (o_held \cup reader) \ {Res("dev", 0)})
                 /\ UNCHANGED o_out
  /\ UNCHANGED << o_backend, o_hasOut, o_n, o_i >>

\* hal_camera_close(*out_camera) after a successful open: STREAMOFF,
\* munmap of every buffer, free of the table, close(fd) (or the reader's
\* Release), free(camera)
CloseCamera ==
  /\ o_pc = "returned"
  /\ o_status = "HAL_STATUS_OK"
  /\ o_pc' = "closed"
  /\ o_held' = o_held \ ({Res("dev", 0), Res("fd", 0), Res("table", 0),
                           Res("reader", 0)}
                          \cup {Res("map", i) : i \in 0..(o_n - 1)})
  /\ UNCHANGED << o_backend, o_hasOut, o_out, o_status, o_n, o_i >>

NextOpen ==
  \/ OpenCall /\ UNCHANGED notOpen
  \/ OpenDevice /\ UNCHANGED notOpen
  \/ OpenSetFormat /\ UNCHANGED notOpen
  \/ OpenRequestBuffers /\ UNCHANGED notOpen
  \/ OpenMapBuffer /\ UNCHANGED notOpen
  \/ OpenLinuxDone /\ UNCHANGED notOpen
  \/ OpenWin32 /\ UNCHANGED notOpen
  \/ CloseCamera /\ UNCHANGED notOpen

SpecOpen == Init /\ [][NextOpen]_vars

\* ------------------------------------------------------------------------
\* Properties of hal_camera_open
\* ------------------------------------------------------------------------

\* the call has returned to a caller that passed a handle variable
OpenReturned == o_pc = "returned" /\ o_hasOut

\* C35: when hal_camera_open has returned a status other than
\* HAL_STATUS_OK, *out_camera is NULL; when it has returned HAL_STATUS_OK,
\* *out_camera is the handle it allocated, still allocated.
C35_OutIsNullOnFailure ==
  OpenReturned =>
    IF o_status = "HAL_STATUS_OK"
      THEN o_out = DevPtr /\ Res("dev", 0) \in o_held
      ELSE o_out = NullPtr

\* C38: when hal_camera_open has returned a status other than
\* HAL_STATUS_OK, nothing it acquired during the call is still held.
C38_FailureReleasesAll ==
  (o_pc = "returned" /\ o_status # "HAL_STATUS_OK") => o_held = {}

\* ------------------------------------------------------------------------
\* The V4L2 camera HAL under a caller that makes any sequence of
\* grab_frame and release_frame calls (camera.c)
\* ------------------------------------------------------------------------

\* the PerceptionEngine, which this caller does not use
EngineUnchanged ==
  UNCHANGED << p_isRunning, p_pc, stage, scene, iter, cycles, prevFailed >>

\* hal_camera_open succeeds with the slots the driver granted
RingOpen ==
  /\ r_pc = "closed"
  /\ \E n \in 1..V4L2_BUFFER_COUNT : n_buffers' = n
  /\ r_pc' = "opened"
  /\ UNCHANGED << cam_queued, cam_filled, streaming, frame, r_held, r_status,
                  r_data >>
  /\ EngineUnchanged

\* hal_camera_start_capture: VIDIOC_QBUF of every slot, VIDIOC_STREAMON;
\* HAL_STATUS_IO_ERROR when the stream does not start
RingStartCapture ==
  /\ r_pc = "opened"
  /\ \E ok \in BOOLEAN :
       /\ cam_queued' = AllSlots(n_buffers)
       /\ streaming' = ok
       /\ r_pc' = IF ok THEN "streaming" ELSE "start_failed"
  /\ UNCHANGED << n_buffers, cam_filled, frame, r_held, r_status, r_data >>
  /\ EngineUnchanged

\* hal_camera_grab_frame: select() fails, times out or finds the device
\* readable; then VIDIOC_DQBUF fails or hands out the slot filled first
RingGrab ==
  /\ r_pc = "streaming"
  /\ \E selectOk \in BOOLEAN, dqbufOk \in BOOLEAN :
       IF ~selectOk
         THEN /\ r_status' = "HAL_STATUS_IO_ERROR"
              /\ UNCHANGED << cam_filled, frame, r_held >>
         ELSE IF ~SelectReady
           THEN /\ r_status' = "HAL_STATUS_TIMEOUT"
                /\ UNCHANGED << cam_filled, frame, r_held >>
           ELSE IF ~dqbufOk
             THEN /\ r_status' = "HAL_STATUS_IO_ERROR"
                  /\ UNCHANGED << cam_filled, frame, r_held >>
             ELSE /\ r_status' = "HAL_STATUS_OK"
                  /\ frame' = BufferStart(Head(cam_filled))
                  /\ cam_filled' = Tail(cam_filled)
                  /\ r_held' = r_held \cup {Head(cam_filled)}
  /\ UNCHANGED << n_buffers, cam_queued, streaming, r_pc, r_data >>
  /\ EngineUnchanged

\* hal_camera_release_frame with any data pointer: the search for the
\* slot, VIDIOC_QBUF of the slot found
RingRelease ==
  /\ r_pc = "streaming"
  /\ \E data \in 0..V4L2_BUFFER_COUNT :
       /\ r_data' = data
       /\ cam_queued' = QueuedAfterRelease(data)
       /\ r_held' = IF QueuedAfterRelease(data) # cam_queued
                      THEN r_held \ {FindSlot(data)}
                      ELSE r_held
  /\ UNCHANGED << n_buffers, cam_filled, streaming, frame, r_pc, r_status >>
  /\ EngineUnchanged

NextRing ==
  \/ RingOpen /\ UNCHANGED notRing
  \/ RingStartCapture /\ UNCHANGED notRing
  \/ HwFill /\ UNCHANGED notPerception
  \/ RingGrab /\ UNCHANGED notRing
  \/ RingRelease /\ UNCHANGED notRing

SpecRing == Init /\ [][NextRing]_vars

\* ------------------------------------------------------------------------
\* Properties of the memory-mapped buffer ring
\* ------------------------------------------------------------------------

\* where every slot is: with the driver (queued or filled) or with the
\* application
SlotStates == << cam_queued, cam_filled, r_held >>

\* no slot occurs twice in the sequence
NoRepeat(seq) ==
  \A k, l \in 1..Len(seq) : k # l => seq[k] # seq[l]

\* C36: once capture has started, every slot is either with the driver or
\* held by the application, never both, and the counts sum to n_buffers;
\* the hardware fills only slots queued to the driver, so never a slot the
\* application holds; a grab_frame that returns a status other than
\* HAL_STATUS_OK and a release_frame whose data pointer matches no slot
\* leave every slot where it was.
C36_SlotPartition ==
  /\ [](r_pc = "streaming" =>
          /\ NoRepeat(cam_queued \o cam_filled)
          /\ DriverSlots \cap r_held = {}
          /\ DriverSlots \cup r_held = Slots
          /\ Len(cam_queued) + Len(cam_filled) + Cardinality(r_held)
               = n_buffers)
  /\ [][(HwFill /\ r_pc = "streaming")
          => Head(cam_queued) \notin r_held]_vars
  /\ [][(RingGrab /\ r_status' # "HAL_STATUS_OK")
          => UNCHANGED SlotStates]_vars
  /\ [][(RingRelease /\ FindSlot(r_data') = 0)
          => UNCHANGED SlotStates]_vars

\* the application holds two slots, the hardware has filled a third, and
\* the last release_frame was of a pointer that matches no slot
C36_Witness ==
  /\ r_pc = "streaming"
  /\ Cardinality(r_held) = 2
  /\ cam_filled # << >>
  /\ FindSlot(r_data) = 0
  /\ r_status = "HAL_STATUS_IO_ERROR"

\* ------------------------------------------------------------------------
\* OnnxRuntimeProcessor (OnnxRuntimeProcessor.cpp): HWC to CHW conversion
\* of the frame into the model's input tensor
\* ------------------------------------------------------------------------

\* the frames handed to process: RGB24 images of up to MaxSide by MaxSide
\* pixels, and a frame whose data pointer is null
OnnxFrames ==
  { Frame(fw, fh, Interleave([ k \in 0..(fw * fh - 1) |-> << 255, 128, 1 >> ],
                             fw * fh)) :
      fw \in 1..MaxSide, fh \in 1..MaxSide }
    \cup { Frame(1, 1, << >>) }

\* frame.size_bytes, 3 * width * height for an RGB24 frame
SizeBytes(f) == Len(f.data)

\* `const int64_t model_h = input_node_dims[2];`
model_h == input_node_dims[3]

\* `const int64_t model_w = input_node_dims[3];`
model_w == input_node_dims[4]

\* `int src_idx = (h * frame.width + w) * 3 + c;`
SrcIdx(f, h, w, c) == (h * f.width + w) * 3 + c

\* `int dst_idx = c * (model_h * model_w) + h * model_w + w;`
OnnxDstIdx(h, w, c) == c * (model_h * model_w) + h * model_w + w

\* what a read past the end of the frame's buffer can yield: some byte of
\* the memory behind it, or a fault (-1)
BeyondBuffer == { 0 - 1, 0, 255 }

\* Impl::Impl: the session is created and the shape of its single input
\* is stored
OnnxConstruct ==
  /\ onnx_pc = "unbuilt"
  /\ \E mh \in 1..MaxModelSide, mw \in 1..MaxModelSide :
       input_node_dims' = << 1, 3, mh, mw >>
  /\ onnx_pc' = "idle"
  /\ UNCHANGED << onnx_frame, out_tensor_data, loop_c, loop_h, loop_w,
                  src_idx, onnx_ret >>

\* process up to the loops of preprocess: the null test, the size warning,
\* out_tensor_data.resize
OnnxProcess ==
  /\ onnx_pc = "idle"
  /\ \E f \in OnnxFrames :
       /\ onnx_frame' = f
       /\ IF f.data = << >>
            THEN /\ onnx_ret' = "false"
                 /\ onnx_pc' = "returned"
                 /\ UNCHANGED out_tensor_data
            ELSE /\ onnx_ret' = "none"
                 /\ onnx_pc' = "preprocess"
                 /\ out_tensor_data' =
                      [ k \in 1..(3 * model_h * model_w) |-> << 0, 1 >> ]
  /\ loop_c' = 0
  /\ loop_h' = 0
  /\ loop_w' = 0
  /\ src_idx' = 0 - 1
  /\ UNCHANGED input_node_dims

\* one iteration of the innermost loop of preprocess
OnnxPixel ==
  /\ onnx_pc = "preprocess"
  /\ src_idx' = SrcIdx(onnx_frame, loop_h, loop_w, loop_c)
  /\ \E beyond \in BeyondBuffer :
       LET inside == src_idx' < SizeBytes(onnx_frame)
           byte == IF inside THEN onnx_frame.data[src_idx' + 1] ELSE beyond
           finished == /\ loop_c = 2
                       /\ loop_h = model_h - 1
                       /\ loop_w = model_w - 1
       IN IF byte < 0
            THEN /\ onnx_pc' = "fault"
                 /\ UNCHANGED << out_tensor_data, loop_c, loop_h, loop_w >>
            ELSE /\ out_tensor_data' =
                      [out_tensor_data EXCEPT
                         ![OnnxDstIdx(loop_h, loop_w, loop_c) + 1] =
                           Rat(byte, 255)]
                 /\ onnx_pc' = IF finished THEN "run" ELSE "preprocess"
                 /\ loop_w' = IF loop_w < model_w - 1 THEN loop_w + 1 ELSE 0
                 /\ loop_h' = IF loop_w < model_w - 1 THEN loop_h
                              ELSE IF loop_h < model_h - 1 THEN loop_h + 1
                              ELSE 0
                 /\ loop_c' = IF loop_w = model_w - 1 /\ loop_h = model_h - 1
                                THEN loop_c + 1 ELSE loop_c
  /\ UNCHANGED << input_node_dims, onnx_frame, onnx_ret >>

\* the rest of process: the tensor is handed to session.Run, the outputs
\* to postprocess; an Ort::Exception makes process return false
OnnxRun ==
  /\ onnx_pc = "run"
  /\ \E ok \in BOOLEAN : onnx_ret' = IF ok THEN "true" ELSE "false"
  /\ onnx_pc' = "returned"
  /\ UNCHANGED << input_node_dims, onnx_frame, out_tensor_data, loop_c,
                  loop_h, loop_w, src_idx >>

NextOnnx ==
  \/ OnnxConstruct /\ UNCHANGED notOnnx
  \/ OnnxProcess /\ UNCHANGED notOnnx
  \/ OnnxPixel /\ UNCHANGED notOnnx
  \/ OnnxRun /\ UNCHANGED notOnnx

SpecOnnx == Init /\ [][NextOnnx]_vars

\* C40: every source byte preprocess reads lies at an offset below
\* frame.size_bytes, whatever the frame's dimensions are relative to the
\* model's input dimensions.
C40_ReadsInsideFrame ==
  src_idx < SizeBytes(onnx_frame)

====
